---- MODULE Spec2Model ----
(***************************************************************************)
(* TCG Investor Pro: the portfolio valuation and the portfolio page         *)
(* (portfolio.js); the grading cost table, the card search / filter / sort *)
(* pipeline, the in-memory collections and start-up (the main script,      *)
(* carried in DEPLOYMENT-CHECKLIST.md); the Supabase client, its helpers   *)
(* and the tables (supabase-config-prod.js, the schema); the price sources *)
(* and the sync service (api-services.js).                                 *)
(*                                                                         *)
(* Each area has its own specification over the shared variables; the      *)
(* variables of the other areas stay at their idle values.                 *)
(*                                                                         *)
(* JavaScript values are modelled as follows.                              *)
(*   - a possibly-absent number (a nullable DECIMAL / INTEGER column, an   *)
(*     undefined property) is a sequence: << >> for null/undefined, <<v>>  *)
(*     for the number v;                                                   *)
(*   - the result of a floating-point division is a record: a reduced      *)
(*     fraction [k |-> "num", n, d], or NaN, Infinity, -Infinity;          *)
(*   - a string that the code inspects character by character is a         *)
(*     sequence of one-character strings.                                  *)
(***************************************************************************)
EXTENDS Integers, Sequences, FiniteSets, TLC

VARIABLES
    \* PortfolioState.portfolioItems (portfolio.js:7)
    portfolioItems,
    \* #portfolioTableBody as written by renderPortfolioTable
    tableBody,
    \* the rows of the CSV built by generateCSV for the last export
    csvContent,
    \* the last message given to showError by the portfolio manager
    notification,
    \* the card value last passed to calculateGradingCosts, and the one before
    cardValue, prevCardValue,
    \* the psa fee returned for cardValue, and the one returned before
    psaCost, prevPsaCost,
    \* the search form's inputs as read by the last performSearch
    dom,
    \* AppState.mockData: << >> while null, else <<[cards |-> reference]>>
    mockData,
    \* the array objects of the main script: reference -> contents
    heap,
    \* AppState.searchResults: a reference into heap
    searchResults,
    \* whether performSearch has run
    searched,
    \* AppState.portfolio and AppState.watchlist of the main script
    portfolio, watchlist,
    \* AppState.isInitialized
    isInitialized,
    \* the module variable `supabase` of the Supabase configuration: the client
    supabase,
    \* PortfolioState.currentUser
    currentUser,
    \* PortfolioState.isLoaded
    isLoaded,
    \* the user of the session the auth client holds: << >> while signed out
    sessionUser,
    \* AppState.currentUser of the main script
    AppState_currentUser,
    \* the binding portfolioManager of portfolio.js and the property
    \* window.portfolioManager: << >> while undefined
    portfolioManager, window_portfolioManager,
    \* the queries of loadPortfolio the database has answered and whose
    \* responses have not arrived yet
    inflight,
    \* the rows of the tables user_portfolios, user_watchlists and pricing_data
    user_portfolios, user_watchlists, pricing_data,
    \* what PriceCharting and PokemonPriceTracker answer a request with; << >>
    \* while no pricing sync is considered
    upstream,
    \* of the last call: the messages it showed the user, in order
    shown,
    \* of the last call: the requests it sent to the database or upstream
    sent,
    \* of the last call: the value it returned
    returned,
    \* of the last call: whether it wrote a console warning or error
    logged,
    \* of the last call: whether an exception left it uncaught
    escaped,
    \* of the last call: whether a request it sent to the database or upstream
    \* failed
    failed

portfolioVars == <<portfolioItems, tableBody, csvContent, notification>>
gradingVars == <<cardValue, prevCardValue, psaCost, prevPsaCost>>
searchVars == <<dom, mockData, heap, searchResults, searched>>
appVars == <<portfolio, watchlist, isInitialized>>
sessionVars ==
    <<sessionUser, AppState_currentUser, portfolioManager, window_portfolioManager, inflight>>
storeVars == <<supabase, currentUser, user_portfolios, user_watchlists, pricing_data,
              upstream, isLoaded, sessionVars>>
callVars == <<shown, sent, returned, logged, escaped, failed>>
backVars == <<appVars, storeVars, callVars>>
vars == <<portfolioVars, gradingVars, searchVars, backVars>>

(***************************************************************************)
(* Bounds                                                                  *)
(***************************************************************************)
\* longest portfolio drawn from PortfolioPool
MaxItems == 2
\* longest loaded card list AppState.mockData.cards
MaxCards == 2

(***************************************************************************)
(* JavaScript numbers                                                      *)
(***************************************************************************)
Null == << >>
N(v) == <<v>>

\* x || y on possibly-absent numbers: null, undefined and 0 are falsy
Truthy(x) == x # Null /\ x[1] # 0
OrElse(x, y) == IF Truthy(x) THEN x ELSE y

Abs(n) == IF n < 0 THEN -n ELSE n

RECURSIVE GCD(_, _)
GCD(a, b) == IF b = 0 THEN a ELSE GCD(b, a % b)

NaN == [k |-> "NaN", n |-> 0, d |-> 1]
PosInfinity == [k |-> "Infinity", n |-> 0, d |-> 1]
NegInfinity == [k |-> "-Infinity", n |-> 0, d |-> 1]

\* the finite number a / b (b # 0) as a reduced fraction with positive denominator
Rat(a, b) ==
    LET g == GCD(Abs(a), Abs(b))
        s == IF b < 0 THEN -1 ELSE 1
    IN  [k |-> "num", n |-> (s * a) \div g, d |-> Abs(b) \div g]

\* a / b on integers, as IEEE-754 division gives it
JSDiv(a, b) ==
    IF b # 0 THEN Rat(a, b)
    ELSE IF a = 0 THEN NaN
    ELSE IF a > 0 THEN PosInfinity
    ELSE NegInfinity

\* x * m for a division result x and an integer m > 0
JSTimes(x, m) == IF x.k = "num" THEN Rat(x.n * m, x.d) ELSE x

\* ToNumber of a possibly-absent number used as an arithmetic operand: null is 0
ToNumber(x) == IF x = Null THEN 0 ELSE x[1]

(***************************************************************************)
(* Portfolio entries                                                       *)
(***************************************************************************)
GradingStatuses == {"ungraded", "psa-7", "psa-8", "psa-9", "psa-10", "other"}

TierValues(v) == {Null, N(0), N(v)}

\* every shape of item.cards.pricing_data[0]: each tier absent, zero or priced
PricingRecords ==
    [ungraded_price : TierValues(20), psa_7_price : TierValues(70),
     psa_8_price : TierValues(80), psa_9_price : TierValues(90),
     psa_10_price : TierValues(100)]

\* an entry with every shape of price record, or none (pricing = << >>)
ResolverItems ==
    [purchase_price : {0, 10, 200}, quantity : {N(1)},
     grading_status : GradingStatuses,
     pricing : {<< >>} \cup {<<p>> : p \in PricingRecords}]

UngradedOnly(v) ==
    [ungraded_price |-> v, psa_7_price |-> Null, psa_8_price |-> Null,
     psa_9_price |-> Null, psa_10_price |-> Null]

\* entries of a several-row portfolio: purchase_price is NOT NULL and unchecked,
\* quantity is a nullable INTEGER that the edit form can set to 0
PortfolioPool ==
    [purchase_price : {0, 10}, quantity : {Null, N(0), N(1), N(2)},
     grading_status : {"ungraded"},
     pricing : {<< >>, <<UngradedOnly(N(5))>>, <<UngradedOnly(N(20))>>}]

SeqsUpTo(S, n) == UNION {[1..m -> S] : m \in 0..n}

(***************************************************************************)
(* portfolio.js                                                            *)
(***************************************************************************)
\* the mutant of getCurrentPrice: psa-8 falls back to psa_10_price, not psa_9_price
getCurrentPrice_WrongFallback(item) ==
    IF item.pricing = << >> THEN item.purchase_price
    ELSE LET pricing == item.pricing[1]
             ungraded == OrElse(pricing.ungraded_price, N(0))
         IN  CASE item.grading_status = "psa-10" ->
                    OrElse(pricing.psa_10_price, ungraded)[1]
               [] item.grading_status = "psa-9" ->
                    OrElse(pricing.psa_9_price, OrElse(pricing.psa_10_price, ungraded))[1]
               [] item.grading_status = "psa-8" ->
                    OrElse(pricing.psa_8_price, OrElse(pricing.psa_10_price, ungraded))[1]
               [] item.grading_status = "psa-7" ->
                    OrElse(pricing.psa_7_price, OrElse(pricing.psa_8_price, ungraded))[1]
               [] OTHER -> ungraded[1]

\* the mutant of getCurrentPrice: an exhausted fallback chain ends in the
\* purchase price instead of 0
getCurrentPrice_EndsInPurchasePrice(item) ==
    IF item.pricing = << >> THEN item.purchase_price
    ELSE LET pricing == item.pricing[1]
             ungraded == OrElse(pricing.ungraded_price, N(item.purchase_price))
         IN  CASE item.grading_status = "psa-10" ->
                    OrElse(pricing.psa_10_price, ungraded)[1]
               [] item.grading_status = "psa-9" ->
                    OrElse(pricing.psa_9_price, OrElse(pricing.psa_10_price, ungraded))[1]
               [] item.grading_status = "psa-8" ->
                    OrElse(pricing.psa_8_price, OrElse(pricing.psa_9_price, ungraded))[1]
               [] item.grading_status = "psa-7" ->
                    OrElse(pricing.psa_7_price, OrElse(pricing.psa_8_price, ungraded))[1]
               [] OTHER -> ungraded[1]

\* PortfolioManager.getCurrentPrice
getCurrentPrice(item) ==
    IF item.pricing = << >> THEN item.purchase_price
    ELSE LET pricing == item.pricing[1]
             ungraded == OrElse(pricing.ungraded_price, N(0))
         IN  CASE item.grading_status = "psa-10" ->
                    OrElse(pricing.psa_10_price, ungraded)[1]
               [] item.grading_status = "psa-9" ->
                    OrElse(pricing.psa_9_price, OrElse(pricing.psa_10_price, ungraded))[1]
               [] item.grading_status = "psa-8" ->
                    OrElse(pricing.psa_8_price, OrElse(pricing.psa_9_price, ungraded))[1]
               [] item.grading_status = "psa-7" ->
                    OrElse(pricing.psa_7_price, OrElse(pricing.psa_8_price, ungraded))[1]
               [] OTHER -> ungraded[1]

\* one <tr> of renderPortfolioTable, before formatting
TableRow(item) ==
    LET currentPrice == getCurrentPrice(item)
    IN  [purchase_price |-> item.purchase_price,
         currentPrice |-> currentPrice,
         profit |-> (currentPrice - item.purchase_price) * ToNumber(item.quantity),
         roi |-> JSTimes(JSDiv(currentPrice - item.purchase_price, item.purchase_price), 100)]

\* one row of generateCSV, before formatting
CsvRow(item) ==
    LET currentPrice == getCurrentPrice(item)
    IN  [purchase_price |-> item.purchase_price,
         currentPrice |-> currentPrice,
         profit |-> (currentPrice - item.purchase_price) * OrElse(item.quantity, N(1))[1],
         roi |-> JSTimes(JSDiv(currentPrice - item.purchase_price, item.purchase_price), 100)]

NotRendered == [state |-> "none", rows |-> << >>]

\* PortfolioManager.renderPortfolioTable
renderPortfolioTable ==
    /\ tableBody' =
         IF Len(portfolioItems) = 0
         THEN [state |-> "empty-state", rows |-> << >>]
         ELSE [state |-> "rows",
               rows |-> [i \in 1..Len(portfolioItems) |-> TableRow(portfolioItems[i])]]
    /\ UNCHANGED <<portfolioItems, csvContent, notification, gradingVars, searchVars, backVars>>

\* PortfolioManager.exportPortfolio, with the generateCSV it calls
exportPortfolio ==
    /\ IF Len(portfolioItems) = 0
       THEN /\ notification' = "No portfolio items to export"
            /\ UNCHANGED csvContent
       ELSE /\ csvContent' =
                 [state |-> "rows",
                  rows |-> [i \in 1..Len(portfolioItems) |-> CsvRow(portfolioItems[i])]]
            /\ UNCHANGED notification
    /\ UNCHANGED <<portfolioItems, tableBody, gradingVars, searchVars, backVars>>

(***************************************************************************)
(* Grading cost table (main script)                                        *)
(***************************************************************************)
\* card values in cents: each breakpoint, one cent below and one cent above it,
\* and the extremes
CardValues ==
    {0, 1000000, 5000000} \cup
    UNION {{b * 100 - 1, b * 100, b * 100 + 1} : b \in {199, 499, 999, 2499, 4999, 9999}}

\* the mutant of calculateGradingCosts: inclusive upper bounds
calculateGradingCosts_Inclusive(v) ==
    [psa |-> IF v <= 19900 THEN 19
             ELSE IF v <= 49900 THEN 30
             ELSE IF v <= 99900 THEN 50
             ELSE IF v <= 249900 THEN 75
             ELSE IF v <= 499900 THEN 150
             ELSE IF v <= 999900 THEN 300
             ELSE 600,
     gamestop |-> 1999]

\* calculateGradingCosts(cardValue), cardValue in cents; psa in dollars,
\* gamestop (19.99) in cents
calculateGradingCosts(v) ==
    [psa |-> IF v < 19900 THEN 19
             ELSE IF v < 49900 THEN 30
             ELSE IF v < 99900 THEN 50
             ELSE IF v < 249900 THEN 75
             ELSE IF v < 499900 THEN 150
             ELSE IF v < 999900 THEN 300
             ELSE 600,
     gamestop |-> 1999]

\* createCardDetailHTML(card): the grading cost of the card's PSA 10 price
createCardDetailHTML ==
    \E v \in CardValues :
        /\ prevCardValue' = cardValue
        /\ prevPsaCost' = psaCost
        /\ cardValue' = N(v)
        /\ psaCost' = N(calculateGradingCosts(v).psa)
        /\ UNCHANGED <<portfolioVars, searchVars, backVars>>

(***************************************************************************)
(* Strings                                                                 *)
(***************************************************************************)
Str1(a) == <<a>>
Str2(a, b) == <<a, b>>

LowerChar(c) ==
    CASE c = "A" -> "a"
      [] c = "B" -> "b"
      [] c = "C" -> "c"
      [] OTHER -> c

\* String.prototype.toLowerCase
toLowerCase(s) == [i \in 1..Len(s) |-> LowerChar(s[i])]

\* String.prototype.includes
includes(s, t) ==
    \E i \in 0..(Len(s) - Len(t)) : SubSeq(s, i + 1, i + Len(t)) = t

\* primary collation weight of a character: digits before letters, case ignored
Weight(c) ==
    CASE c = "1" -> 1
      [] c = "2" -> 2
      [] LowerChar(c) = "a" -> 11
      [] LowerChar(c) = "b" -> 12
      [] OTHER -> 13

IsUpper(c) == LowerChar(c) # c

Min(S) == CHOOSE x \in S : \A y \in S : x <= y

\* String.prototype.localeCompare under the default (root) collation: the
\* strings are compared by their letters with case ignored, a proper prefix
\* first; strings equal up to case are ordered by the first character whose
\* case differs, lower case first
localeCompare(a, b) ==
    LET common == 1..(IF Len(a) < Len(b) THEN Len(a) ELSE Len(b))
        diff1 == {i \in common : Weight(a[i]) # Weight(b[i])}
        diff3 == {i \in common : a[i] # b[i]}
    IN  IF diff1 # {}
        THEN IF Weight(a[Min(diff1)]) < Weight(b[Min(diff1)]) THEN -1 ELSE 1
        ELSE IF Len(a) # Len(b)
        THEN IF Len(a) < Len(b) THEN -1 ELSE 1
        ELSE IF diff3 # {}
        THEN IF IsUpper(b[Min(diff3)]) THEN -1 ELSE 1
        ELSE 0

(***************************************************************************)
(* Cards and the search form                                               *)
(***************************************************************************)
\* the cards a loaded list is drawn from; ids are primary keys
CardPool ==
    { [id |-> "c1", name |-> Str2("A", "b"), set |-> Str1("c"), number |-> Str1("1"),
       setId |-> "s1", type |-> "pokemon", rarity |-> "rare",
       ungradedPrice |-> 10, roi |-> 100, trending |-> 5],
      [id |-> "c2", name |-> Str1("C"), set |-> Str2("a", "B"), number |-> Str1("2"),
       setId |-> "s1", type |-> "trainer", rarity |-> "rare",
       ungradedPrice |-> 10, roi |-> -50, trending |-> 5],
      [id |-> "c3", name |-> Str1("C"), set |-> Str1("c"), number |-> Str2("A", "B"),
       setId |-> "s2", type |-> "pokemon", rarity |-> "common",
       ungradedPrice |-> 0, roi |-> 0, trending |-> 9],
      [id |-> "c4", name |-> Str1("c"), set |-> Str1("c"), number |-> Str1("1"),
       setId |-> "s2", type |-> "pokemon", rarity |-> "common",
       ungradedPrice |-> 50, roi |-> 100, trending |-> 0] }

\* the lists AppState.mockData.cards can hold: distinct cards, in any order
CardLists ==
    {l \in SeqsUpTo(CardPool, MaxCards) :
        \A i, j \in 1..Len(l) : i # j => l[i].id # l[j].id}

SortKeys ==
    {"price-desc", "price-asc", "roi-desc", "roi-asc", "name", "trending", "newest"}

\* what the user can put in each input of the search form; a number input is
\* << >> when left empty
DomValues ==
    [cardSearch |-> {<< >>, Str2("A", "b")},
     setFilter |-> {"", "s1"},
     typeFilter |-> {"", "pokemon"},
     rarityFilter |-> {"", "rare"},
     priceMin |-> {Null, N(10)},
     priceMax |-> {Null, N(0), N(10)},
     roiMin |-> {Null, N(-50)},
     roiMax |-> {Null, N(0)},
     sortBy |-> SortKeys]

DomFields == DOMAIN DomValues

\* the form as the page loads it
DefaultDom ==
    [cardSearch |-> << >>, setFilter |-> "", typeFilter |-> "", rarityFilter |-> "",
     priceMin |-> Null, priceMax |-> Null, roiMin |-> Null, roiMax |-> Null,
     sortBy |-> "price-desc"]

\* a filter bound: a finite number or +Infinity
Fin(v) == [inf |-> FALSE, v |-> v]
Infinity == [inf |-> TRUE, v |-> 0]
AtMost(x, bound) == bound.inf \/ x <= bound.v

(***************************************************************************)
(* Search, filter, sort (main script)                                      *)
(***************************************************************************)
\* getActiveFilters: parseFloat(value) || default; parseFloat of an empty input
\* is NaN, and NaN and 0 are both falsy
getActiveFilters(d) ==
    [set |-> d.setFilter, type |-> d.typeFilter, rarity |-> d.rarityFilter,
     priceMin |-> OrElse(d.priceMin, N(0))[1],
     priceMax |-> IF Truthy(d.priceMax) THEN Fin(d.priceMax[1]) ELSE Infinity,
     roiMin |-> OrElse(d.roiMin, N(0))[1],
     roiMax |-> IF Truthy(d.roiMax) THEN Fin(d.roiMax[1]) ELSE Infinity,
     sortBy |-> d.sortBy]

\* the mutant of matchesCard: the price range is exclusive at its upper end
matchesCard_ExclusiveMax(card, searchTerm, filters) ==
    LET matchesSearch ==
            \/ Len(searchTerm) = 0
            \/ includes(toLowerCase(card.name), searchTerm)
            \/ includes(toLowerCase(card.set), searchTerm)
            \/ includes(toLowerCase(card.number), searchTerm)
        matchesSet == filters.set = "" \/ card.setId = filters.set
        matchesType == filters.type = "" \/ card.type = filters.type
        matchesRarity == filters.rarity = "" \/ card.rarity = filters.rarity
        matchesPrice ==
            /\ card.ungradedPrice >= filters.priceMin
            /\ filters.priceMax.inf \/ card.ungradedPrice < filters.priceMax.v
        matchesROI == card.roi >= filters.roiMin /\ AtMost(card.roi, filters.roiMax)
    IN  matchesSearch /\ matchesSet /\ matchesType /\ matchesRarity
            /\ matchesPrice /\ matchesROI

\* the callback searchCards gives to Array.prototype.filter
matchesCard(card, searchTerm, filters) ==
    LET matchesSearch ==
            \/ Len(searchTerm) = 0
            \/ includes(toLowerCase(card.name), searchTerm)
            \/ includes(toLowerCase(card.set), searchTerm)
            \/ includes(toLowerCase(card.number), searchTerm)
        matchesSet == filters.set = "" \/ card.setId = filters.set
        matchesType == filters.type = "" \/ card.type = filters.type
        matchesRarity == filters.rarity = "" \/ card.rarity = filters.rarity
        matchesPrice ==
            /\ card.ungradedPrice >= filters.priceMin
            /\ AtMost(card.ungradedPrice, filters.priceMax)
        matchesROI == card.roi >= filters.roiMin /\ AtMost(card.roi, filters.roiMax)
    IN  matchesSearch /\ matchesSet /\ matchesType /\ matchesRarity
            /\ matchesPrice /\ matchesROI

\* Array.prototype.filter: the matching elements, in order, as a new sequence
RECURSIVE filterFrom(_, _, _, _)
filterFrom(cards, i, searchTerm, filters) ==
    IF i > Len(cards) THEN << >>
    ELSE (IF matchesCard(cards[i], searchTerm, filters) THEN <<cards[i]>> ELSE << >>)
            \o filterFrom(cards, i + 1, searchTerm, filters)

filterCards(cards, searchTerm, filters) == filterFrom(cards, 1, searchTerm, filters)

\* the mutant of compareCards: price-asc compares like price-desc
compareCards_AscAsDesc(a, b, sortBy) ==
    CASE sortBy = "price-desc" -> b.ungradedPrice - a.ungradedPrice
      [] sortBy = "price-asc" -> b.ungradedPrice - a.ungradedPrice
      [] sortBy = "roi-desc" -> b.roi - a.roi
      [] sortBy = "roi-asc" -> a.roi - b.roi
      [] sortBy = "name" -> localeCompare(a.name, b.name)
      [] sortBy = "trending" -> b.trending - a.trending
      [] OTHER -> 0

\* the mutant of compareCards: price-desc leaves the order as it is
compareCards_DescUnsorted(a, b, sortBy) ==
    CASE sortBy = "price-desc" -> 0
      [] sortBy = "price-asc" -> a.ungradedPrice - b.ungradedPrice
      [] sortBy = "roi-desc" -> b.roi - a.roi
      [] sortBy = "roi-asc" -> a.roi - b.roi
      [] sortBy = "name" -> localeCompare(a.name, b.name)
      [] sortBy = "trending" -> b.trending - a.trending
      [] OTHER -> 0

\* the comparator sortCards gives to Array.prototype.sort
compareCards(a, b, sortBy) ==
    CASE sortBy = "price-desc" -> b.ungradedPrice - a.ungradedPrice
      [] sortBy = "price-asc" -> a.ungradedPrice - b.ungradedPrice
      [] sortBy = "roi-desc" -> b.roi - a.roi
      [] sortBy = "roi-asc" -> a.roi - b.roi
      [] sortBy = "name" -> localeCompare(a.name, b.name)
      [] sortBy = "trending" -> b.trending - a.trending
      [] OTHER -> 0

\* x put into the sorted sequence s behind every element that does not compare
\* greater than it
insertSorted(s, x, sortBy) ==
    LET keep == {i \in 0..Len(s) : \A j \in (i + 1)..Len(s) : compareCards(s[j], x, sortBy) > 0}
        at == Min(keep)
    IN  SubSeq(s, 1, at) \o <<x>> \o SubSeq(s, at + 1, Len(s))

\* Array.prototype.sort with the comparator: a stable sort (ECMAScript 2019)
RECURSIVE sortFrom(_, _, _, _)
sortFrom(cards, i, acc, sortBy) ==
    IF i > Len(cards) THEN acc
    ELSE sortFrom(cards, i + 1, insertSorted(acc, cards[i], sortBy), sortBy)

\* the mutant of sortedSeq: equal elements come out in reverse input order
sortedSeq_Unstable(cards, sortBy) ==
    LET r == [i \in 1..Len(cards) |-> cards[Len(cards) + 1 - i]]
    IN  sortFrom(r, 1, << >>, sortBy)

sortedSeq(cards, sortBy) == sortFrom(cards, 1, << >>, sortBy)

\* sortCards(cards, sortBy): sorts the array `ref` of heap h in place and
\* returns it; the result is the heap after the call
sortCards(h, ref, sortBy) == [h EXCEPT ![ref] = sortedSeq(h[ref], sortBy)]

\* the reference of the array a call allocates while the arrays of AppState
\* are live
NewRef == "new"

\* the mutant of searchCards: the loaded list is sorted, then filtered
searchCards_SortsInput(h, md, fresh, searchTerm, filters) ==
    IF md = << >> THEN [heap |-> (fresh :> << >>) @@ h, ref |-> fresh]
    ELSE LET src == md[1].cards
             h1 == sortCards(h, src, filters.sortBy)
         IN  [heap |-> (fresh :> filterCards(h1[src], searchTerm, filters)) @@ h1,
              ref |-> fresh]

\* searchCards(searchTerm, filters) on heap h with AppState.mockData = md; the
\* array filter() allocates gets the reference `fresh`. The result is the heap
\* after the call and the reference returned.
searchCards(h, md, fresh, searchTerm, filters) ==
    IF md = << >> THEN [heap |-> (fresh :> << >>) @@ h, ref |-> fresh]
    ELSE LET src == md[1].cards
             h1 == (fresh :> filterCards(h[src], searchTerm, filters)) @@ h
         IN  [heap |-> sortCards(h1, fresh, filters.sortBy), ref |-> fresh]

\* the forms the user can have in front of them when the search is triggered:
\* the form of the last search with at most one input changed
Edits(d) ==
    {d} \cup UNION {{[d EXCEPT ![f] = v] : v \in DomValues[f]} : f \in DomFields}

\* the reference AppState.searchResults holds once `ref` is assigned to it: the
\* array it held before is unreachable, and the new array takes its name
Settled(ref) == IF ref = NewRef THEN "results" ELSE ref

\* the arrays still reachable from AppState once `ref` is assigned to
\* AppState.searchResults
Live(h, md, ref) ==
    LET kept == IF md = << >> THEN {} ELSE {md[1].cards}
    IN  [r \in kept \cup {Settled(ref)} |-> IF r \in kept THEN h[r] ELSE h[ref]]

\* performSearch, with the timer callback it schedules: nothing else runs
\* between the two that the callback reads
performSearch ==
    \E d \in Edits(dom) :
        LET searchTerm == toLowerCase(d.cardSearch)
            filters == getActiveFilters(d)
            out == searchCards(heap, mockData, NewRef, searchTerm, filters)
        IN  /\ dom' = d
            /\ searchResults' = Settled(out.ref)
            /\ heap' = Live(out.heap, mockData, out.ref)
            /\ searched' = TRUE
            /\ UNCHANGED <<mockData, portfolioVars, gradingVars, backVars>>

(***************************************************************************)
(* The in-memory portfolio and watchlist (main script)                     *)
(***************************************************************************)
\* the cards of loadMockData: prices in dollars, roi as written in the source
MockCards ==
    <<[id |-> "charizard-base-4", ungradedPrice |-> 150, psa10Price |-> 5000,
       roi |-> Rat(31333, 10)],
      [id |-> "blastoise-base-2", ungradedPrice |-> 80, psa10Price |-> 800,
       roi |-> Rat(900, 1)],
      [id |-> "venusaur-base-15", ungradedPrice |-> 60, psa10Price |-> 600,
       roi |-> Rat(900, 1)],
      [id |-> "pikachu-base-58", ungradedPrice |-> 5, psa10Price |-> 50,
       roi |-> Rat(900, 1)]>>

\* the card ids a button of the page can pass, and one that no card has
CardIds == {MockCards[i].id : i \in 1..Len(MockCards)} \cup {"unknown"}

\* Array.prototype.find(c => c.id === cardId): << >> when there is none
findById(cards, cardId) ==
    LET at == {i \in 1..Len(cards) : cards[i].id = cardId}
    IN  IF at = {} THEN << >> ELSE <<cards[Min(at)]>>

\* Array.prototype.filter(c => c.id !== cardId)
RECURSIVE withoutId(_, _)
withoutId(cards, cardId) ==
    IF cards = << >> THEN << >>
    ELSE (IF cards[1].id # cardId THEN <<cards[1]>> ELSE << >>)
            \o withoutId(Tail(cards), cardId)

\* the entry addToPortfolio builds from a card
portfolioCard(card) ==
    [id |-> card.id,
     ungradedPrice |-> card.ungradedPrice,
     psa10Price |-> card.psa10Price,
     purchasePrice |-> card.ungradedPrice,
     currentValue |-> card.psa10Price,
     profit |-> card.psa10Price - card.ungradedPrice
                    - calculateGradingCosts(card.psa10Price * 100).psa,
     roi |-> card.roi]

\* what a call of the main script leaves in the record of the last call
Said(messages) ==
    /\ shown' = messages
    /\ sent' = << >>
    /\ returned' = Null
    /\ logged' = FALSE
    /\ escaped' = FALSE
    /\ failed' = FALSE

\* addToPortfolio(cardId)
addToPortfolio(cardId) ==
    /\ mockData # << >>
    /\ LET card == findById(heap[mockData[1].cards], cardId)
       IN  IF card = << >>
           THEN Said(<< >>) /\ UNCHANGED portfolio
           ELSE IF findById(portfolio, cardId) # << >>
           THEN Said(<<"This card is already in your portfolio.">>) /\ UNCHANGED portfolio
           ELSE /\ portfolio' = Append(portfolio, portfolioCard(card[1]))
                /\ Said(<<"Card added to portfolio!">>)
    /\ UNCHANGED <<watchlist, isInitialized, storeVars, portfolioVars, gradingVars, searchVars>>

\* addToWatchlist(cardId)
addToWatchlist(cardId) ==
    /\ mockData # << >>
    /\ LET card == findById(heap[mockData[1].cards], cardId)
       IN  IF card = << >>
           THEN Said(<< >>) /\ UNCHANGED watchlist
           ELSE IF findById(watchlist, cardId) # << >>
           THEN Said(<<"This card is already in your watchlist.">>) /\ UNCHANGED watchlist
           ELSE /\ watchlist' = Append(watchlist, card[1])
                /\ Said(<<"Card added to watchlist!">>)
    /\ UNCHANGED <<portfolio, isInitialized, storeVars, portfolioVars, gradingVars, searchVars>>

\* removeFromPortfolio(cardId)
removeFromPortfolio(cardId) ==
    /\ portfolio' = withoutId(portfolio, cardId)
    /\ Said(<<"Card removed from portfolio.">>)
    /\ UNCHANGED <<watchlist, isInitialized, storeVars, portfolioVars, gradingVars, searchVars>>

(***************************************************************************)
(* The Supabase client and the tables (supabase-config-prod.js, schema)    *)
(***************************************************************************)
\* how a request to the database or to an upstream service ends: it is served,
\* it resolves with an error, or its promise rejects
Outcomes == {"ok", "error", "reject"}

\* auth.users, and the ids of the table cards
Users == {"u1"}
StoreCards == {"c1", "c2"}

\* the values gen_random_uuid() gives to new rows
RowIdPool == <<"r1", "r2", "r3">>

\* the object window.supabase.createClient returns
Client == <<"client">>

\* the methods of the object DatabaseHelpers
HelperNames ==
    {"getCards", "getCardById", "searchCards", "getSets", "getUserPortfolio",
     "addToPortfolio", "removeFromPortfolio", "getUserWatchlist", "addToWatchlist",
     "removeFromWatchlist", "signUp", "signIn", "signOut", "getCurrentUser",
     "getUserPreferences", "updateUserPreferences"}

\* what a helper returns while there is no client
NotInitialized == [data |-> Null, error |-> <<"Client not initialized">>]

\* the result of a request that was not served
Failed(msg) == [data |-> Null, error |-> <<msg>>]

freshId(rows) ==
    LET used == {rows[i].id : i \in 1..Len(rows)}
    IN  RowIdPool[Min({k \in 1..Len(RowIdPool) : RowIdPool[k] \notin used})]

\* the mutant of insertUserPortfolio: the table has no UNIQUE (user_id, card_id)
insertUserPortfolio_NoUnique(rows, session, row) ==
    IF session = Null \/ session # row.user_id
    THEN [rows |-> rows, error |-> <<"new row violates row-level security policy">>]
    ELSE IF row.purchase_price = Null
    THEN [rows |-> rows, error |-> <<"null value in column purchase_price">>]
    ELSE [rows |-> Append(rows, [id |-> freshId(rows),
                                 user_id |-> row.user_id[1],
                                 card_id |-> row.card_id,
                                 purchase_price |-> row.purchase_price[1],
                                 quantity |-> N(1),
                                 grading_status |-> row.grading_status]),
          error |-> Null]

\* INSERT INTO user_portfolios (user_id, card_id, purchase_price, purchase_date,
\* grading_status, notes) by the session user: the row-level security policy,
\* NOT NULL of purchase_price, UNIQUE (user_id, card_id), DEFAULT 1 of quantity
insertUserPortfolio(rows, session, row) ==
    IF session = Null \/ session # row.user_id
    THEN [rows |-> rows, error |-> <<"new row violates row-level security policy">>]
    ELSE IF row.purchase_price = Null
    THEN [rows |-> rows, error |-> <<"null value in column purchase_price">>]
    ELSE IF \E i \in 1..Len(rows) :
                rows[i].user_id = row.user_id[1] /\ rows[i].card_id = row.card_id
    THEN [rows |-> rows, error |-> <<"duplicate key value violates unique constraint">>]
    ELSE [rows |-> Append(rows, [id |-> freshId(rows),
                                 user_id |-> row.user_id[1],
                                 card_id |-> row.card_id,
                                 purchase_price |-> row.purchase_price[1],
                                 quantity |-> N(1),
                                 grading_status |-> row.grading_status]),
          error |-> Null]

\* DELETE FROM user_portfolios WHERE user_id = userId AND card_id = cardId
RECURSIVE deleteUserPortfolio(_, _, _)
deleteUserPortfolio(rows, userId, cardId) ==
    IF rows = << >> THEN << >>
    ELSE (IF <<rows[1].user_id>> = userId /\ rows[1].card_id = N(cardId)
          THEN << >> ELSE <<rows[1]>>)
            \o deleteUserPortfolio(Tail(rows), userId, cardId)

\* SELECT * FROM portfolio_with_roi WHERE user_id = userId ORDER BY created_at
\* DESC: the rows of the user, the newest first, no price record joined
RECURSIVE selectPortfolioWithRoi(_, _)
selectPortfolioWithRoi(rows, userId) ==
    IF rows = << >> THEN << >>
    ELSE selectPortfolioWithRoi(Tail(rows), userId)
            \o (IF <<rows[1].user_id>> = userId
                THEN <<[id |-> rows[1].id,
                        user_id |-> rows[1].user_id,
                        card_id |-> rows[1].card_id,
                        purchase_price |-> rows[1].purchase_price,
                        quantity |-> rows[1].quantity,
                        grading_status |-> rows[1].grading_status,
                        pricing |-> << >>]>>
                ELSE << >>)

\* INSERT INTO user_watchlists (user_id, card_id, alert_price, alert_type):
\* the row-level security policy and UNIQUE (user_id, card_id)
insertUserWatchlist(rows, session, row) ==
    IF session = Null \/ session # row.user_id
    THEN [rows |-> rows, error |-> <<"new row violates row-level security policy">>]
    ELSE IF \E i \in 1..Len(rows) :
                rows[i].user_id = row.user_id[1] /\ rows[i].card_id = row.card_id
    THEN [rows |-> rows, error |-> <<"duplicate key value violates unique constraint">>]
    ELSE [rows |-> Append(rows, [user_id |-> row.user_id[1],
                                 card_id |-> row.card_id,
                                 alert_type |-> row.alert_type]),
          error |-> Null]

\* the guard and the try / catch every method of DatabaseHelpers has: without
\* a client nothing is sent; a rejected request is logged and becomes an error
\* result; `served` is what the database does with a request it serves; the
\* request failed when it was rejected or answered with an error
helperCall(client, request, net, rows, served) ==
    IF client = Null
    THEN [rows |-> rows, result |-> NotInitialized, sent |-> << >>, logged |-> TRUE,
          failed |-> FALSE]
    ELSE IF net = "reject"
    THEN [rows |-> rows, result |-> Failed("Failed to fetch"),
          sent |-> <<request>>, logged |-> TRUE, failed |-> TRUE]
    ELSE IF net = "error"
    THEN [rows |-> rows, result |-> Failed("request failed"),
          sent |-> <<request>>, logged |-> FALSE, failed |-> TRUE]
    ELSE [rows |-> served.rows, result |-> served.result,
          sent |-> <<request>>, logged |-> FALSE,
          failed |-> served.result.error # Null]

\* DatabaseHelpers.getUserPortfolio(userId)
DatabaseHelpers_getUserPortfolio(client, rows, userId, net) ==
    helperCall(client, "select portfolio_with_roi", net, rows,
               [rows |-> rows,
                result |-> [data |-> <<selectPortfolioWithRoi(rows, userId)>>,
                            error |-> Null]])

\* DatabaseHelpers.addToPortfolio(userId, cardId, purchasePrice, purchaseDate,
\* gradingStatus, notes); the session user is the one the page signed in
DatabaseHelpers_addToPortfolio(client, rows, userId, cardId, purchasePrice, gradingStatus, net) ==
    LET ins == insertUserPortfolio(rows, userId,
                   [user_id |-> userId, card_id |-> cardId,
                    purchase_price |-> purchasePrice, grading_status |-> gradingStatus])
    IN  helperCall(client, "insert user_portfolios", net, rows,
                   [rows |-> ins.rows, result |-> [data |-> Null, error |-> ins.error]])

\* DatabaseHelpers.removeFromPortfolio(userId, cardId)
DatabaseHelpers_removeFromPortfolio(client, rows, userId, cardId, net) ==
    helperCall(client, "delete user_portfolios", net, rows,
               [rows |-> deleteUserPortfolio(rows, userId, cardId),
                result |-> [data |-> Null, error |-> Null]])

\* DatabaseHelpers.addToWatchlist(userId, cardId, alertPrice, alertType)
DatabaseHelpers_addToWatchlist(client, rows, session, userId, cardId, alertType, net) ==
    LET ins == insertUserWatchlist(rows, session,
                   [user_id |-> userId, card_id |-> cardId, alert_type |-> alertType])
    IN  helperCall(client, "insert user_watchlists", net, rows,
                   [rows |-> ins.rows, result |-> [data |-> Null, error |-> ins.error]])

(***************************************************************************)
(* The portfolio page (portfolio.js) on the stored portfolio               *)
(***************************************************************************)
\* parseFloat of the price field and parseInt of the quantity field: NaN is
\* Null, as JSON carries it
FormPrices == {Null, N(0), N(10)}
FormQuantities == {Null, N(0), N(3)}

\* the rows renderPortfolioTable writes for the items
TableOf(items) ==
    IF Len(items) = 0
    THEN [state |-> "empty-state", rows |-> << >>]
    ELSE [state |-> "rows", rows |-> [i \in 1..Len(items) |-> TableRow(items[i])]]

\* the mutant of validateAddCard: a form without a selected card is submitted
validateAddCard_NoSelectionCheck(selectedCard, user) ==
    IF user = Null THEN "Please sign in to manage your portfolio"
    ELSE "ok"

\* the checks of handleAddCard before its try block: the message shown, or "ok"
validateAddCard(selectedCard, user) ==
    IF selectedCard = Null THEN "Please select a card from the search results"
    ELSE IF user = Null THEN "Please sign in to manage your portfolio"
    ELSE "ok"

\* the mutant of loadPortfolio: an error of the query is neither logged nor
\* shown
loadPortfolio_Silent(client, user, rows, items, net) ==
    IF user = Null
    THEN [items |-> items, rendered |-> FALSE, shown |-> << >>, sent |-> << >>,
          logged |-> FALSE, result |-> Null, failed |-> FALSE]
    ELSE LET h == DatabaseHelpers_getUserPortfolio(client, rows, user, net)
         IN  IF h.result.error # Null
             THEN [items |-> items, rendered |-> FALSE, shown |-> << >>,
                   sent |-> h.sent, logged |-> h.logged, result |-> <<h.result>>,
                   failed |-> h.failed]
             ELSE [items |-> h.result.data[1], rendered |-> TRUE, shown |-> << >>,
                   sent |-> h.sent, logged |-> h.logged, result |-> <<h.result>>,
                   failed |-> h.failed]

\* loadPortfolio(): the items after it, whether it rendered them, and what it
\* showed, sent and logged
loadPortfolio(client, user, rows, items, net) ==
    IF user = Null
    THEN [items |-> items, rendered |-> FALSE, shown |-> << >>, sent |-> << >>,
          logged |-> FALSE, result |-> Null, failed |-> FALSE]
    ELSE LET h == DatabaseHelpers_getUserPortfolio(client, rows, user, net)
         IN  IF h.result.error # Null
             THEN [items |-> items, rendered |-> FALSE,
                   shown |-> <<"Failed to load portfolio">>, sent |-> h.sent,
                   logged |-> TRUE, result |-> <<h.result>>, failed |-> h.failed]
             ELSE [items |-> h.result.data[1], rendered |-> TRUE, shown |-> << >>,
                   sent |-> h.sent, logged |-> h.logged, result |-> <<h.result>>,
                   failed |-> h.failed]

\* what a call of the portfolio page leaves behind: the items and the table,
\* the messages (the last one stays in the notification), the requests and
\* whether one failed, the result of the last DatabaseHelpers call and the
\* log; every statement that can throw is inside a try block
Done(items, rendered, messages, requests, result, log, failure) ==
    /\ portfolioItems' = items
    /\ tableBody' = IF rendered THEN TableOf(items) ELSE tableBody
    /\ notification' = IF messages = << >> THEN notification ELSE messages[Len(messages)]
    /\ shown' = messages
    /\ sent' = requests
    /\ returned' = result
    /\ logged' = log
    /\ escaped' = FALSE
    /\ failed' = failure
    /\ isLoaded' = (isLoaded \/ rendered)
    /\ UNCHANGED <<csvContent, gradingVars, searchVars, appVars, pricing_data, upstream>>

\* a call that leaves the session, the manager and the responses in flight
\* as they are
Did(items, rendered, messages, requests, result, log, failure) ==
    /\ Done(items, rendered, messages, requests, result, log, failure)
    /\ UNCHANGED sessionVars

\* the mutant of initializeSupabase: a placeholder URL is accepted
initializeSupabase_AcceptsPlaceholder(client, lib, url, anonKey) ==
    IF ~lib THEN [supabase |-> client, returned |-> Null, logged |-> TRUE]
    ELSE IF url = ""
    THEN [supabase |-> client, returned |-> Null, logged |-> TRUE]
    ELSE IF anonKey = "" \/ anonKey = "YOUR_SUPABASE_ANON_KEY"
    THEN [supabase |-> client, returned |-> Null, logged |-> TRUE]
    ELSE [supabase |-> Client, returned |-> Client, logged |-> FALSE]

\* initializeSupabase(url, anonKey) with window.supabase defined or not (lib):
\* the module's client after it, the value returned, whether an error is logged
initializeSupabase(client, lib, url, anonKey) ==
    IF ~lib THEN [supabase |-> client, returned |-> Null, logged |-> TRUE]
    ELSE IF url = "" \/ url = "YOUR_SUPABASE_URL"
    THEN [supabase |-> client, returned |-> Null, logged |-> TRUE]
    ELSE IF anonKey = "" \/ anonKey = "YOUR_SUPABASE_ANON_KEY"
    THEN [supabase |-> client, returned |-> Null, logged |-> TRUE]
    ELSE [supabase |-> Client, returned |-> Client, logged |-> FALSE]

Urls == {"", "YOUR_SUPABASE_URL", "https://project.supabase.co"}
AnonKeys == {"", "YOUR_SUPABASE_ANON_KEY", "anon-key"}

\* a call of initializeSupabase, with the connection test it starts
invokeInitializeSupabase(lib, url, anonKey) ==
    LET r == initializeSupabase(supabase, lib, url, anonKey)
    IN  /\ supabase' = r.supabase
        /\ IF r.returned = Null
           THEN Did(portfolioItems, FALSE, << >>, << >>, <<r.returned>>, r.logged, FALSE)
           ELSE \E net \in Outcomes :
                    Did(portfolioItems, FALSE, << >>, <<"select sets">>, <<r.returned>>,
                        net # "ok", net # "ok")
        /\ UNCHANGED <<currentUser, user_portfolios, user_watchlists>>

\* a call of a method of DatabaseHelpers that reads or writes no table of the
\* model
invokeHelper(name) ==
    \E net \in Outcomes :
        LET h == helperCall(supabase, name, net, << >>,
                            [rows |-> << >>,
                             result |-> [data |-> <<"served">>, error |-> Null]])
        IN  /\ Did(portfolioItems, FALSE, << >>, h.sent, <<h.result>>, h.logged, h.failed)
            /\ UNCHANGED <<supabase, currentUser, user_portfolios, user_watchlists>>

\* a call of DatabaseHelpers.getUserPortfolio
invokeGetUserPortfolio(userId) ==
    \E net \in Outcomes :
        LET h == DatabaseHelpers_getUserPortfolio(supabase, user_portfolios, N(userId), net)
        IN  /\ Did(portfolioItems, FALSE, << >>, h.sent, <<h.result>>, h.logged, h.failed)
            /\ UNCHANGED <<supabase, currentUser, user_portfolios, user_watchlists>>

\* a call of DatabaseHelpers.addToPortfolio by the signed-in user
invokeAddToPortfolio(cardId, purchasePrice) ==
    \E net \in Outcomes :
        LET h == DatabaseHelpers_addToPortfolio(supabase, user_portfolios, currentUser,
                                                N(cardId), purchasePrice, "ungraded", net)
        IN  /\ user_portfolios' = h.rows
            /\ Did(portfolioItems, FALSE, << >>, h.sent, <<h.result>>, h.logged, h.failed)
            /\ UNCHANGED <<supabase, currentUser, user_watchlists>>

\* a call of DatabaseHelpers.removeFromPortfolio
invokeRemoveFromPortfolio(userId, cardId) ==
    \E net \in Outcomes :
        LET h == DatabaseHelpers_removeFromPortfolio(supabase, user_portfolios,
                                                     N(userId), cardId, net)
        IN  /\ user_portfolios' = h.rows
            /\ Did(portfolioItems, FALSE, << >>, h.sent, <<h.result>>, h.logged, h.failed)
            /\ UNCHANGED <<supabase, currentUser, user_watchlists>>

\* a call of DatabaseHelpers.addToWatchlist with the default alert type
invokeAddToWatchlist(userId, cardId) ==
    \E net \in Outcomes :
        LET h == DatabaseHelpers_addToWatchlist(supabase, user_watchlists, currentUser,
                                                N(userId), N(cardId), "price_drop", net)
        IN  /\ user_watchlists' = h.rows
            /\ Did(portfolioItems, FALSE, << >>, h.sent, <<h.result>>, h.logged, h.failed)
            /\ UNCHANGED <<supabase, currentUser, user_portfolios>>

\* loadPortfolio() called from a handler, under every outcome of its request
thenLoad(rows, messages, requests) ==
    \E net \in Outcomes :
        LET load == loadPortfolio(supabase, currentUser', rows, portfolioItems, net)
        IN  Did(load.items, load.rendered, messages \o load.shown,
                requests \o load.sent, load.result, load.logged, load.failed)

\* initializePortfolio(); user is the one auth.getUser() finds: the request is
\* rejected, or it yields no user (nobody signed in, or an error), or a user
initializePortfolio(user) ==
    IF supabase = Null
    THEN /\ Did(portfolioItems, FALSE, <<"Failed to initialize portfolio">>, << >>, Null,
                TRUE, FALSE)
         /\ UNCHANGED <<supabase, currentUser, user_portfolios, user_watchlists>>
    ELSE \/ /\ Did(portfolioItems, FALSE, <<"Failed to initialize portfolio">>,
                   <<"auth.getUser">>, Null, TRUE, TRUE)
            /\ UNCHANGED <<supabase, currentUser, user_portfolios, user_watchlists>>
         \/ /\ \E failure \in BOOLEAN :
                  Did(portfolioItems, FALSE, <<"Please sign in to manage your portfolio">>,
                      <<"auth.getUser">>, Null, FALSE, failure)
            /\ UNCHANGED <<supabase, currentUser, user_portfolios, user_watchlists>>
         \/ /\ user # Null
            /\ currentUser' = user
            /\ thenLoad(user_portfolios, << >>, <<"auth.getUser">>)
            /\ UNCHANGED <<supabase, user_portfolios, user_watchlists>>

\* refreshPortfolio(), which is loadPortfolio()
refreshPortfolio ==
    /\ UNCHANGED <<supabase, currentUser, user_portfolios, user_watchlists>>
    /\ thenLoad(user_portfolios, << >>, << >>)

\* handleAddCard(e) with PortfolioState.selectedCard and the form as submitted
handleAddCard(selectedCard, purchasePrice, quantity) ==
    LET check == validateAddCard(selectedCard, currentUser)
    IN  IF check # "ok"
        THEN /\ Did(portfolioItems, FALSE, <<check>>, << >>, Null, FALSE, FALSE)
             /\ UNCHANGED <<supabase, currentUser, user_portfolios, user_watchlists>>
        ELSE \E net \in Outcomes :
                LET h == DatabaseHelpers_addToPortfolio(supabase, user_portfolios,
                             currentUser, selectedCard, purchasePrice, "ungraded", net)
                IN  /\ user_portfolios' = h.rows
                    /\ UNCHANGED <<supabase, currentUser, user_watchlists>>
                    /\ IF h.result.error # Null
                       THEN Did(portfolioItems, FALSE, <<"Failed to add card to portfolio">>,
                                h.sent, <<h.result>>, TRUE, h.failed)
                       ELSE thenLoad(h.rows, <<"Card added to portfolio successfully!">>,
                                     h.sent)

\* handleEditPortfolio(e): DatabaseHelpers has no method updatePortfolioItem,
\* the call throws a TypeError inside the try block
handleEditPortfolio(itemId, purchasePrice, quantity) ==
    /\ "updatePortfolioItem" \notin HelperNames
    /\ Did(portfolioItems, FALSE, <<"Failed to update portfolio item">>, << >>, Null, TRUE,
           FALSE)
    /\ UNCHANGED <<supabase, currentUser, user_portfolios, user_watchlists>>

\* deletePortfolioItem(itemId), from confirmDelete or from the edit form; with
\* no user, reading PortfolioState.currentUser.id throws inside the try block
deletePortfolioItem(id) ==
    IF currentUser = Null
    THEN /\ Did(portfolioItems, FALSE, <<"Failed to delete portfolio item">>, << >>, Null,
                TRUE, FALSE)
         /\ UNCHANGED <<supabase, currentUser, user_portfolios, user_watchlists>>
    ELSE \E net \in Outcomes :
            LET h == DatabaseHelpers_removeFromPortfolio(supabase, user_portfolios,
                                                         currentUser, id, net)
            IN  /\ user_portfolios' = h.rows
                /\ UNCHANGED <<supabase, currentUser, user_watchlists>>
                /\ IF h.result.error # Null
                   THEN Did(portfolioItems, FALSE, <<"Failed to delete portfolio item">>,
                            h.sent, <<h.result>>, TRUE, h.failed)
                   ELSE thenLoad(h.rows, <<"Portfolio item deleted successfully!">>,
                                 h.sent)

(***************************************************************************)
(* The session: page load, sign-in, sign-out                               *)
(***************************************************************************)
\* PortfolioManager.initializePortfolio() as a function of what
\* auth.getUser() does (getUser) and finds (user): PortfolioState.currentUser
\* and the items after it, and what it showed, sent and logged
PortfolioManager_initializePortfolio(client, user, getUser, rows, items, net) ==
    LET load == loadPortfolio(client, user, rows, items, net)
        stays(message, requests, log, failure) ==
            [currentUser |-> currentUser, items |-> items, rendered |-> FALSE,
             shown |-> <<message>>, sent |-> requests, logged |-> log,
             failed |-> failure]
    IN  IF client = Null
        THEN stays("Failed to initialize portfolio", << >>, TRUE, FALSE)
        ELSE IF getUser = "reject"
        THEN stays("Failed to initialize portfolio", <<"auth.getUser">>, TRUE, TRUE)
        ELSE IF getUser = "error" \/ user = Null
        THEN stays("Please sign in to manage your portfolio", <<"auth.getUser">>, FALSE,
                   getUser = "error")
        ELSE [currentUser |-> user, items |-> load.items, rendered |-> load.rendered,
              shown |-> load.shown, sent |-> <<"auth.getUser">> \o load.sent,
              logged |-> load.logged, failed |-> load.failed]

\* the handler of DOMContentLoaded in portfolio.js: the binding gets the new
\* PortfolioManager, whose constructor calls initializePortfolio();
\* window.portfolioManager was assigned before, when the script ran
DOMContentLoaded ==
    /\ portfolioManager = Null
    /\ portfolioManager' = N("PortfolioManager")
    /\ \E getUser \in Outcomes, net \in Outcomes :
          LET r == PortfolioManager_initializePortfolio(supabase, sessionUser, getUser,
                       user_portfolios, portfolioItems, net)
          IN  /\ currentUser' = r.currentUser
              /\ Done(r.items, r.rendered, r.shown, r.sent, Null, r.logged, r.failed)
    /\ UNCHANGED <<supabase, user_portfolios, user_watchlists, sessionUser,
                   AppState_currentUser, window_portfolioManager, inflight>>

\* the properties of a PortfolioManager object: the class assigns none, and
\* PortfolioState is a constant of the script, not a property
ManagerProperties == {}

\* window.portfolioManager && !window.portfolioManager.PortfolioState?.isLoaded
\* in updateAuthUI(true)
updateAuthUI_initializes ==
    /\ window_portfolioManager # Null
    /\ ~("PortfolioState" \in ManagerProperties /\ isLoaded)

\* the listener of onAuthStateChange on SIGNED_IN, once the document is loaded
\* and DatabaseHelpers.signIn has signed the user in: AppState.currentUser is
\* set and updateAuthUI(true) calls initializePortfolio() of
\* window.portfolioManager if there is one
SIGNED_IN(user) ==
    /\ portfolioManager # Null
    /\ supabase # Null
    /\ sessionUser = Null
    /\ sessionUser' = N(user)
    /\ AppState_currentUser' = N(user)
    /\ IF updateAuthUI_initializes
       THEN \E getUser \in Outcomes, net \in Outcomes :
               LET r == PortfolioManager_initializePortfolio(supabase, N(user), getUser,
                            user_portfolios, portfolioItems, net)
               IN  /\ currentUser' = r.currentUser
                   /\ Done(r.items, r.rendered, r.shown, r.sent, Null, r.logged,
                           r.failed)
       ELSE /\ currentUser' = currentUser
            /\ Done(portfolioItems, FALSE, << >>, << >>, Null, FALSE, FALSE)
    /\ UNCHANGED <<supabase, user_portfolios, user_watchlists, portfolioManager,
                   window_portfolioManager, inflight>>

\* the listener on SIGNED_OUT: AppState.currentUser is cleared and
\* updateAuthUI(false) restores the buttons
SIGNED_OUT ==
    /\ portfolioManager # Null
    /\ supabase # Null
    /\ sessionUser # Null
    /\ sessionUser' = Null
    /\ AppState_currentUser' = Null
    /\ Done(portfolioItems, FALSE, << >>, << >>, Null, FALSE, FALSE)
    /\ UNCHANGED <<supabase, currentUser, user_portfolios, user_watchlists,
                   portfolioManager, window_portfolioManager, inflight>>

\* showAddCardModal(): the login prompt without PortfolioState.currentUser,
\* else the modal is opened
showAddCardModal ==
    /\ portfolioManager # Null
    /\ IF currentUser = Null
       THEN Did(portfolioItems, FALSE, <<"Please sign in to manage your portfolio">>,
                << >>, Null, FALSE, FALSE)
       ELSE Did(portfolioItems, FALSE, << >>, << >>, <<"addCardModal active">>, FALSE,
                FALSE)
    /\ UNCHANGED <<supabase, currentUser, user_portfolios, user_watchlists>>

(***************************************************************************)
(* The portfolio page with its requests in flight                          *)
(***************************************************************************)
\* how many responses of loadPortfolio are awaited at a time
MaxInflight == 2

\* the query of loadPortfolio() is sent and the database answers it; the
\* response is on its way
queried(rows) ==
    Append(inflight,
           DatabaseHelpers_getUserPortfolio(supabase, rows, currentUser, "ok").result)

\* refreshPortfolio() up to the await in loadPortfolio()
refreshPortfolio_awaits ==
    /\ currentUser # Null
    /\ Len(inflight) < MaxInflight
    /\ inflight' = queried(user_portfolios)
    /\ Done(portfolioItems, FALSE, << >>, <<"select portfolio_with_roi">>, Null, FALSE,
            FALSE)
    /\ UNCHANGED <<supabase, currentUser, user_portfolios, user_watchlists, sessionUser,
                   AppState_currentUser, portfolioManager, window_portfolioManager>>

\* handleAddCard(e) up to the await in its loadPortfolio(): the insert is
\* answered, the success message shown and the query sent
handleAddCard_awaits(selectedCard, purchasePrice) ==
    /\ currentUser # Null
    /\ Len(inflight) < MaxInflight
    /\ LET h == DatabaseHelpers_addToPortfolio(supabase, user_portfolios, currentUser,
                    selectedCard, purchasePrice, "ungraded", "ok")
       IN  /\ user_portfolios' = h.rows
           /\ IF h.result.error # Null
              THEN /\ Done(portfolioItems, FALSE, <<"Failed to add card to portfolio">>,
                           h.sent, <<h.result>>, TRUE, h.failed)
                   /\ UNCHANGED inflight
              ELSE /\ Done(portfolioItems, FALSE,
                           <<"Card added to portfolio successfully!">>,
                           h.sent \o <<"select portfolio_with_roi">>, <<h.result>>,
                           FALSE, FALSE)
                   /\ inflight' = queried(h.rows)
    /\ UNCHANGED <<supabase, currentUser, user_watchlists, sessionUser,
                   AppState_currentUser, portfolioManager, window_portfolioManager>>

\* deletePortfolioItem(itemId) up to the await in its loadPortfolio()
deletePortfolioItem_awaits(id) ==
    /\ currentUser # Null
    /\ Len(inflight) < MaxInflight
    /\ LET h == DatabaseHelpers_removeFromPortfolio(supabase, user_portfolios,
                                                    currentUser, id, "ok")
       IN  /\ user_portfolios' = h.rows
           /\ Done(portfolioItems, FALSE, <<"Portfolio item deleted successfully!">>,
                   h.sent \o <<"select portfolio_with_roi">>, <<h.result>>, FALSE, FALSE)
           /\ inflight' = queried(h.rows)
    /\ UNCHANGED <<supabase, currentUser, user_watchlists, sessionUser,
                   AppState_currentUser, portfolioManager, window_portfolioManager>>

\* loadPortfolio() after its await, when the response of the n-th query in
\* flight arrives: the responses arrive in any order
loadPortfolio_resumes(n) ==
    /\ n \in 1..Len(inflight)
    /\ inflight' = SubSeq(inflight, 1, n - 1) \o SubSeq(inflight, n + 1, Len(inflight))
    /\ IF inflight[n].error # Null
       THEN Done(portfolioItems, FALSE, <<"Failed to load portfolio">>, << >>,
                 <<inflight[n]>>, TRUE, TRUE)
       ELSE Done(inflight[n].data[1], TRUE, << >>, << >>, <<inflight[n]>>, FALSE, FALSE)
    /\ UNCHANGED <<supabase, currentUser, user_portfolios, user_watchlists, sessionUser,
                   AppState_currentUser, portfolioManager, window_portfolioManager>>

(***************************************************************************)
(* The pricing sources and the pricing sync (api-services.js)              *)
(***************************************************************************)
\* a field of a product as the JSON body carries it: absent, a number, a string
Undefined == [k |-> "undefined"]
Num(v) == [k |-> "number", v |-> v]
Str(s) == [k |-> "string", s |-> s]

DigitOf(c) ==
    CASE c = "0" -> 0
      [] c = "1" -> 1
      [] c = "2" -> 2
      [] c = "9" -> 9
      [] OTHER -> -1

\* String.prototype.replace(/[$,\s]/g, '')
RECURSIVE cleanPrice(_)
cleanPrice(s) ==
    IF s = << >> THEN << >>
    ELSE IF Head(s) \in {"$", ",", " "} THEN cleanPrice(Tail(s))
    ELSE <<Head(s)>> \o cleanPrice(Tail(s))

\* the value of the digits s starts with, after the digits already read
RECURSIVE parseDigits(_, _)
parseDigits(s, acc) ==
    IF s = << >> \/ DigitOf(Head(s)) < 0 THEN acc
    ELSE parseDigits(Tail(s), acc * 10 + DigitOf(Head(s)))

\* parseFloat on an unsigned string without a fraction: the leading digits,
\* and NaN (<< >>) when it starts with none
parseFloat(s) ==
    IF s = << >> \/ DigitOf(Head(s)) < 0 THEN Null ELSE N(parseDigits(s, 0))

\* DataSyncService.parsePrice(priceString)
parsePrice(priceString) ==
    IF \/ priceString.k = "undefined"
       \/ priceString.k = "number" /\ priceString.v = 0
       \/ priceString.k = "string" /\ priceString.s = << >>
    THEN Null
    ELSE IF priceString.k = "number" THEN N(priceString.v)
    ELSE parseFloat(cleanPrice(priceString.s))

\* DataSyncService.calculateROI(purchasePrice, currentPrice)
calculateROI(purchasePrice, currentPrice) ==
    IF ~Truthy(purchasePrice) \/ ~Truthy(currentPrice) THEN Rat(0, 1)
    ELSE JSTimes(JSDiv(currentPrice[1] - purchasePrice[1], purchasePrice[1]), 100)

\* the card whose prices are synced: its id and its name
PricedCard == "c1"
CardName == Str2("A", "b")

\* an element of the PriceCharting body: null, or a product
JsonNull == [k |-> "null"]
PcProducts ==
    [k : {"object"},
     productName : {Null, N(Str2("a", "B")), N(Str1("C"))},
     price : {Undefined, Num(0), Str(<<"0">>), Str(<<"$", "1", "2">>),
              Str(<<"n", "/", "a">>)},
     psa10Price : {Undefined, Str(<<"1", ",", "2", "0", "0">>)},
     psa9Price : {Undefined, Num(90)},
     psa8Price : {Undefined},
     psa7Price : {Undefined}]

\* a PriceCharting body: an array of products, or a value that is no array
Array(items) == [k |-> "array", items |-> items]
PcBodies ==
    {Array(<< >>), JsonNull} \cup {Array(<<p>>) : p \in PcProducts \cup {JsonNull}}

\* a PokemonPriceTracker body: null, or the prices of the card
PptBodies ==
    {JsonNull}
    \cup [k : {"object"}, current_price : {Null, N(0), N(7)},
          market_price : {Null, N(9)}, trending_score : {Null, N(5)}]

\* what a service does with a request: it fails (network error or a status
\* that is not ok), or it serves a body
Rejected == [ok |-> FALSE]
Served(body) == [ok |-> TRUE, body |-> body]
PcResponses == {Rejected} \cup {Served(b) : b \in PcBodies}
PptResponses == {Rejected} \cup {Served(b) : b \in PptBodies}

\* the rows of user_api_keys the guide has the owner enter
user_api_keys ==
    [pokemontcg |-> N("tcg-key"), pricecharting |-> N("pc-key"),
     pokemonpricetracker |-> N("ppt-key")]

\* APIHelpers.getApiKey(service): the client is asked of DatabaseHelpers,
\* which has no getSupabaseClient; the TypeError is caught and logged and
\* there is no key
getApiKey(service, client) ==
    IF "getSupabaseClient" \notin HelperNames \/ client = Null
    THEN [key |-> Null, logged |-> TRUE]
    ELSE IF user_api_keys[service] = Null
    THEN [key |-> Null, logged |-> TRUE]
    ELSE [key |-> user_api_keys[service], logged |-> FALSE]

\* APIHelpers.makeApiRequest(url): a failed request is logged and thrown again
makeApiRequest(response) ==
    IF response.ok
    THEN [thrown |-> FALSE, data |-> response.body, logged |-> FALSE]
    ELSE [thrown |-> TRUE, data |-> JsonNull, logged |-> TRUE]

\* PriceChartingAPI.searchPokemonPrices(searchTerm)
searchPokemonPrices(apiKey, response) ==
    LET r == makeApiRequest(response)
    IN  IF apiKey = Null
        THEN [value |-> << >>, sent |-> << >>, logged |-> TRUE, failed |-> FALSE]
        ELSE IF r.thrown
        THEN [value |-> << >>, sent |-> <<"GET pricecharting">>, logged |-> TRUE,
              failed |-> TRUE]
        ELSE [value |-> IF r.data.k = "array" THEN r.data.items ELSE <<r.data>>,
              sent |-> <<"GET pricecharting">>, logged |-> FALSE, failed |-> FALSE]

\* PokemonPriceTrackerAPI.getCardPricing(cardName, setName)
getCardPricing(apiKey, response) ==
    LET r == makeApiRequest(response)
    IN  IF apiKey = Null
        THEN [value |-> JsonNull, sent |-> << >>, logged |-> TRUE, failed |-> FALSE]
        ELSE IF r.thrown
        THEN [value |-> JsonNull, sent |-> <<"GET pokemonpricetracker">>, logged |-> TRUE,
              failed |-> TRUE]
        ELSE [value |-> r.data, sent |-> <<"GET pokemonpricetracker">>, logged |-> FALSE,
              failed |-> FALSE]

\* an element of the array Promise.allSettled resolves with
Fulfilled(value) == [status |-> "fulfilled", value |-> value]

\* item.productName && item.productName.toLowerCase().includes(
\* cardName.toLowerCase()) on a product
nameMatches(item, cardName) ==
    /\ item.productName # Null
    /\ item.productName[1] # << >>
    /\ includes(toLowerCase(item.productName[1]), toLowerCase(cardName))

\* Array.prototype.find with that callback: reading productName of an element
\* that is null throws
RECURSIVE findProduct(_, _)
findProduct(items, cardName) ==
    IF items = << >> THEN [thrown |-> FALSE, found |-> Null]
    ELSE IF Head(items).k # "object" THEN [thrown |-> TRUE, found |-> Null]
    ELSE IF nameMatches(Head(items), cardName)
    THEN [thrown |-> FALSE, found |-> <<Head(items)>>]
    ELSE findProduct(Tail(items), cardName)

\* combinedPricing = {}: keys are the properties the object has
NoPricing ==
    [keys |-> {}, ungraded_price |-> Null, psa_10_price |-> Null,
     psa_9_price |-> Null, psa_8_price |-> Null, psa_7_price |-> Null,
     data_source |-> Null, trending_score |-> Null, roi_percentage |-> Null]

\* the block "Process PriceCharting data"
withPriceCharting(combined, pcData) ==
    [combined EXCEPT
        !.keys = @ \cup {"ungraded_price", "psa_10_price", "psa_9_price",
                         "psa_8_price", "psa_7_price", "data_source"},
        !.ungraded_price = parsePrice(pcData.price),
        !.psa_10_price = parsePrice(pcData.psa10Price),
        !.psa_9_price = parsePrice(pcData.psa9Price),
        !.psa_8_price = parsePrice(pcData.psa8Price),
        !.psa_7_price = parsePrice(pcData.psa7Price),
        !.data_source = N("pricecharting")]

\* the mutant of withPokemonPriceTracker: its price replaces the merged one
withPokemonPriceTracker_Overwrites(combined, pptData) ==
    IF Truthy(pptData.current_price) \/ Truthy(pptData.market_price)
    THEN [combined EXCEPT
            !.keys = @ \cup {"ungraded_price", "trending_score", "data_source"},
            !.ungraded_price =
                parsePrice(Num(OrElse(pptData.current_price, pptData.market_price)[1])),
            !.trending_score = OrElse(pptData.trending_score, N(0)),
            !.data_source = IF @ # Null THEN N("multiple_apis")
                            ELSE N("pokemonpricetracker")]
    ELSE combined

\* the block "Process PokemonPriceTracker data"
withPokemonPriceTracker(combined, pptData) ==
    IF Truthy(pptData.current_price) \/ Truthy(pptData.market_price)
    THEN [combined EXCEPT
            !.keys = @ \cup {"ungraded_price", "trending_score", "data_source"},
            !.ungraded_price =
                OrElse(@, parsePrice(Num(OrElse(pptData.current_price,
                                                pptData.market_price)[1]))),
            !.trending_score = OrElse(pptData.trending_score, N(0)),
            !.data_source = IF @ # Null THEN N("multiple_apis")
                            ELSE N("pokemonpricetracker")]
    ELSE combined

\* a variant of the ROI block that takes the best graded price there is
withRoi_AnyGrade(combined) ==
    LET graded == OrElse(combined.psa_10_price, OrElse(combined.psa_9_price,
                      OrElse(combined.psa_8_price, combined.psa_7_price)))
    IN  IF Truthy(combined.ungraded_price) /\ Truthy(graded)
        THEN [combined EXCEPT
                !.keys = @ \cup {"roi_percentage"},
                !.roi_percentage = <<calculateROI(combined.ungraded_price, graded)>>]
        ELSE combined

\* the block "Calculate ROI if we have pricing data"
withRoi(combined) ==
    IF Truthy(combined.ungraded_price) /\ Truthy(combined.psa_10_price)
    THEN [combined EXCEPT
            !.keys = @ \cup {"roi_percentage"},
            !.roi_percentage =
                <<calculateROI(combined.ungraded_price, combined.psa_10_price)>>]
    ELSE combined

\* DataSyncService.getCardPricingFromMultipleSources(cardName, setName) on the
\* two settled results: the record, or null (<< >>); an exception is caught
\* and logged
getCardPricingFromMultipleSources(pricechartingData, pokemonpricetrackerData, cardName) ==
    LET f == IF pricechartingData.status = "fulfilled"
             THEN findProduct(pricechartingData.value, cardName)
             ELSE [thrown |-> FALSE, found |-> Null]
        c1 == IF f.found # Null THEN withPriceCharting(NoPricing, f.found[1])
              ELSE NoPricing
        c2 == IF /\ pokemonpricetrackerData.status = "fulfilled"
                 /\ pokemonpricetrackerData.value.k = "object"
              THEN withPokemonPriceTracker(c1, pokemonpricetrackerData.value)
              ELSE c1
        c3 == withRoi(c2)
    IN  IF f.thrown THEN [value |-> Null, logged |-> TRUE]
        ELSE [value |-> IF c3.keys # {} THEN <<c3>> ELSE Null, logged |-> FALSE]

\* the columns of pricing_data and the column sets a unique index covers
PricingColumns ==
    {"id", "card_id", "source", "ungraded_price", "psa_10_price", "psa_9_price",
     "psa_8_price", "last_updated"}
PricingUnique == {{"id"}, {"card_id", "source"}}

\* a variant that inserts the row whatever the table holds
upsertPricingData_Inserts(rows, columns, row, onConflict) ==
    [rows |-> Append(rows, [card_id |-> row.card_id, source |-> row.source,
                            ungraded_price |-> row.ungraded_price,
                            psa_10_price |-> row.psa_10_price,
                            psa_9_price |-> row.psa_9_price,
                            psa_8_price |-> row.psa_8_price]),
     error |-> Null]

\* upsert of one object into pricing_data with ON CONFLICT (onConflict): the
\* properties must be columns, the conflict target a unique index, source is
\* NOT NULL; then the row of the same card and source is replaced, or the row
\* is added
upsertPricingData(rows, columns, row, onConflict) ==
    IF ~(columns \subseteq PricingColumns)
    THEN [rows |-> rows, error |-> <<"column not found">>]
    ELSE IF onConflict \notin PricingUnique
    THEN [rows |-> rows,
          error |-> <<"no unique constraint matching the ON CONFLICT specification">>]
    ELSE IF "source" \notin columns \/ row.source = Null
    THEN [rows |-> rows, error |-> <<"null value in column source">>]
    ELSE LET stored == [card_id |-> row.card_id, source |-> row.source,
                        ungraded_price |-> row.ungraded_price,
                        psa_10_price |-> row.psa_10_price,
                        psa_9_price |-> row.psa_9_price,
                        psa_8_price |-> row.psa_8_price]
             same(r) == r.card_id = row.card_id /\ r.source = row.source
         IN  [rows |-> IF \E i \in 1..Len(rows) : same(rows[i])
                       THEN [i \in 1..Len(rows) |->
                                IF same(rows[i]) THEN stored ELSE rows[i]]
                       ELSE Append(rows, stored),
              error |-> Null]

\* DataSyncService.syncCardPricing(cardId, cardName, setName)
syncCardPricing(cardId, cardName) ==
    /\ upstream # << >>
    /\ \E net \in Outcomes :
         LET pcKey == getApiKey("pricecharting", supabase)
             pptKey == getApiKey("pokemonpricetracker", supabase)
             pc == searchPokemonPrices(pcKey.key, upstream.pricecharting)
             ppt == getCardPricing(pptKey.key, upstream.pokemonpricetracker)
             agg == getCardPricingFromMultipleSources(
                        Fulfilled(pc.value), Fulfilled(ppt.value), cardName)
             asked == pc.sent \o ppt.sent
             asking == pc.failed \/ ppt.failed
             noted == pcKey.logged \/ pptKey.logged \/ pc.logged \/ ppt.logged
                          \/ agg.logged
             object == agg.value[1]
             up == upsertPricingData(pricing_data,
                       object.keys \cup {"card_id", "last_updated", "data_source"},
                       [card_id |-> cardId, source |-> Null,
                        ungraded_price |-> object.ungraded_price,
                        psa_10_price |-> object.psa_10_price,
                        psa_9_price |-> object.psa_9_price,
                        psa_8_price |-> object.psa_8_price],
                       {"card_id"})
             done(rows, requests, result, log, failure) ==
                 /\ pricing_data' = rows
                 /\ sent' = requests
                 /\ returned' = result
                 /\ logged' = log
                 /\ shown' = << >>
                 /\ escaped' = FALSE
                 /\ failed' = failure
                 /\ UNCHANGED <<portfolioVars, gradingVars, searchVars, appVars, supabase,
                                currentUser, user_portfolios, user_watchlists, upstream,
                                isLoaded, sessionVars>>
         IN  IF agg.value = Null
             THEN net = "ok" /\ done(pricing_data, asked, Null, noted, asking)
             ELSE IF supabase = Null
             THEN net = "ok" /\ done(pricing_data, asked, Null, TRUE, asking)
             ELSE IF net # "ok" \/ up.error # Null
             THEN done(pricing_data, asked \o <<"upsert pricing_data">>, Null, TRUE, TRUE)
             ELSE done(up.rows, asked \o <<"upsert pricing_data">>, agg.value, noted,
                       asking)

\* getCardPricingFromMultipleSources(cardName, setName) with both wrappers
\* holding a key: they settle with what the services answer
invokeGetCardPricing(cardName) ==
    /\ upstream # << >>
    /\ LET pc == searchPokemonPrices(N("pc-key"), upstream.pricecharting)
           ppt == getCardPricing(N("ppt-key"), upstream.pokemonpricetracker)
           agg == getCardPricingFromMultipleSources(
                      Fulfilled(pc.value), Fulfilled(ppt.value), cardName)
       IN  /\ sent' = pc.sent \o ppt.sent
           /\ returned' = agg.value
           /\ logged' = (pc.logged \/ ppt.logged \/ agg.logged)
           /\ shown' = << >>
           /\ escaped' = FALSE
           /\ failed' = (pc.failed \/ ppt.failed)
           /\ UNCHANGED <<portfolioVars, gradingVars, searchVars, appVars, storeVars>>

(***************************************************************************)
(* The populate-pricing function                                           *)
(***************************************************************************)
\* the rows the function selects from the table cards (at most 50): their id
\* and tcgplayer_id
ServerCards ==
    {<< >>,
     <<[id |-> "c1", tcgplayer_id |-> N("t1")], [id |-> "c2", tcgplayer_id |-> N("t2")]>>,
     <<[id |-> "c1", tcgplayer_id |-> Null], [id |-> "c2", tcgplayer_id |-> N("t2")]>>}

\* what fetch does with a product request: the promise rejects, or resolves
\* with a status that is not ok, or with a body: null, or the prices of the
\* product
ProductBodies ==
    {JsonNull}
    \cup [k : {"object"}, price : {Null, N(5), N(8)}, psa10 : {Null},
          psa9 : {Null}, psa8 : {Null}]
ProductAnswers ==
    {[fetch |-> "rejects", ok |-> FALSE, body |-> JsonNull],
     [fetch |-> "resolves", ok |-> FALSE, body |-> JsonNull]}
    \cup {[fetch |-> "resolves", ok |-> TRUE, body |-> b] : b \in ProductBodies}

\* the pause after a card
Delay == "setTimeout 100"
ProductRequest == "GET pricecharting product"

\* the body of the loop "for (const card of cards)": the row pushed, the
\* request and the pause in their order; a card without tcgplayer_id is not
\* asked for; a rejected fetch and a body whose price cannot be read throw
\* into the catch block, which logs and continues with the next card
pricedCard(card, answer) ==
    IF card.tcgplayer_id = Null
    THEN [rows |-> << >>, events |-> <<Delay>>, logged |-> FALSE, failed |-> FALSE]
    ELSE IF answer.fetch = "rejects"
    THEN [rows |-> << >>, events |-> <<ProductRequest>>, logged |-> TRUE,
          failed |-> TRUE]
    ELSE IF ~answer.ok
    THEN [rows |-> << >>, events |-> <<ProductRequest, Delay>>, logged |-> FALSE,
          failed |-> TRUE]
    ELSE IF answer.body.k # "object"
    THEN [rows |-> << >>, events |-> <<ProductRequest>>, logged |-> TRUE,
          failed |-> FALSE]
    ELSE [rows |-> <<[card_id |-> card.id, source |-> N("pricecharting"),
                      ungraded_price |-> OrElse(answer.body.price, Null),
                      psa_10_price |-> OrElse(answer.body.psa10, Null),
                      psa_9_price |-> OrElse(answer.body.psa9, Null),
                      psa_8_price |-> OrElse(answer.body.psa8, Null)]>>,
          events |-> <<ProductRequest, Delay>>, logged |-> FALSE, failed |-> FALSE]

\* the loop over the cards from card i on: pricingDataToInsert and the
\* requests and pauses in their order
RECURSIVE pricedCards(_, _, _)
pricedCards(cards, answers, i) ==
    IF i > Len(cards)
    THEN [rows |-> << >>, events |-> << >>, logged |-> FALSE, failed |-> FALSE]
    ELSE LET one == pricedCard(cards[i], answers[i])
             rest == pricedCards(cards, answers, i + 1)
         IN  [rows |-> one.rows \o rest.rows, events |-> one.events \o rest.events,
              logged |-> one.logged \/ rest.logged,
              failed |-> one.failed \/ rest.failed]

\* .upsert(pricingDataToInsert, { onConflict: 'card_id,source' }): the rows
\* of one statement, each inserted or replacing the row of its card and source
RECURSIVE upsertPricingRows(_, _, _)
upsertPricingRows(rows, batch, i) ==
    IF i > Len(batch) THEN [rows |-> rows, error |-> Null]
    ELSE LET up == upsertPricingData(rows,
                       {"card_id", "source", "ungraded_price", "psa_10_price",
                        "psa_9_price", "psa_8_price", "last_updated"},
                       batch[i], {"card_id", "source"})
         IN  IF up.error # Null THEN [rows |-> rows, error |-> up.error]
             ELSE upsertPricingRows(up.rows, batch, i + 1)

\* the Response the function returns
ServerResponse(status, processed, inserted) ==
    <<[status |-> status, cards_processed |-> processed, pricing_inserted |-> inserted]>>

\* the handler given to serve(): a preflight request is answered at once;
\* without the PriceCharting key the answer is 400; an error of the card
\* query or of the upsert is logged and answered with 500; otherwise every
\* card is asked for and the rows are upserted in one statement
populatePricing(method, keyFound, cards, answers, cardsNet, net) ==
    LET keys == <<"select user_api_keys", "select user_api_keys">>
        loop == pricedCards(cards, answers, 1)
        up == upsertPricingRows(pricing_data, loop.rows, 1)
        done(rows, events, response, log, failure) ==
            /\ pricing_data' = rows
            /\ shown' = << >>
            /\ sent' = events
            /\ returned' = response
            /\ logged' = log
            /\ escaped' = FALSE
            /\ failed' = failure
            /\ UNCHANGED <<portfolioVars, gradingVars, searchVars, appVars, supabase,
                           currentUser, user_portfolios, user_watchlists, upstream,
                           isLoaded, sessionVars>>
    IN  IF method = "OPTIONS"
        THEN done(pricing_data, << >>, ServerResponse(200, 0, 0), FALSE, FALSE)
        ELSE IF ~keyFound
        THEN done(pricing_data, keys, ServerResponse(400, 0, 0), FALSE, TRUE)
        ELSE IF cardsNet # "ok"
        THEN done(pricing_data, keys \o <<"select cards">>, ServerResponse(500, 0, 0),
                  TRUE, TRUE)
        ELSE IF loop.rows = << >>
        THEN done(pricing_data, keys \o <<"select cards">> \o loop.events,
                  ServerResponse(200, Len(cards), 0), loop.logged, loop.failed)
        ELSE IF net # "ok" \/ up.error # Null
        THEN done(pricing_data,
                  keys \o <<"select cards">> \o loop.events \o <<"upsert pricing_data">>,
                  ServerResponse(500, 0, 0), TRUE, TRUE)
        ELSE done(up.rows,
                  keys \o <<"select cards">> \o loop.events \o <<"upsert pricing_data">>,
                  ServerResponse(200, Len(cards), Len(loop.rows)), loop.logged,
                  loop.failed)

(***************************************************************************)
(* Start-up and the card sync (main script, api-services.js)               *)
(*                                                                         *)
(* A function that awaits requests is the set of its runs, one for every   *)
(* way its requests can end.  A run tells whether the function threw, what *)
(* it logged and sent, and whether a request of it failed.                 *)
(***************************************************************************)
\* the cards loadDataFromDatabase builds from the table cards while there is
\* no price record: every price and the ROI are 0
DbCards ==
    <<[id |-> "c1", ungradedPrice |-> 0, psa10Price |-> 0, roi |-> Rat(0, 1)],
      [id |-> "c2", ungradedPrice |-> 0, psa10Price |-> 0, roi |-> Rat(0, 1)]>>

\* testSupabaseConnection() with the client in place
testSupabaseConnection(net) ==
    [connected |-> net = "ok", logged |-> net # "ok", failed |-> net # "ok",
     sent |-> <<"select sets">>]

\* initializeSupabase() of the main script: the client of the configuration
\* after it and whether it reports a connection; initializeSupabase(url,
\* anonKey) starts one connection test and this function awaits another
App_initializeSupabase(client, lib, url, anonKey) ==
    LET r == initializeSupabase(client, lib, url, anonKey)
    IN  IF url = "" \/ anonKey = ""
        THEN {[supabase |-> client, connected |-> FALSE, logged |-> TRUE,
               failed |-> FALSE, sent |-> << >>]}
        ELSE IF r.returned = Null
        THEN {[supabase |-> r.supabase, connected |-> FALSE, logged |-> TRUE,
               failed |-> FALSE, sent |-> << >>]}
        ELSE {LET a == testSupabaseConnection(started)
                  b == testSupabaseConnection(awaited)
              IN  [supabase |-> r.supabase, connected |-> b.connected,
                   logged |-> a.logged \/ b.logged, failed |-> a.failed \/ b.failed,
                   sent |-> a.sent \o b.sent] :
              started \in Outcomes, awaited \in Outcomes}

\* DatabaseHelpers.getCards(filters) on a table cards that yields `stored`
DatabaseHelpers_getCards(client, stored, net) ==
    helperCall(client, "select cards", net, << >>,
               [rows |-> << >>, result |-> [data |-> <<stored>>, error |-> Null]])

\* DatabaseHelpers.getSets()
DatabaseHelpers_getSets(client, net) ==
    helperCall(client, "select sets", net, << >>,
               [rows |-> << >>, result |-> [data |-> <<"sets">>, error |-> Null]])

\* loadDataFromDatabase(): an error of either query is thrown, logged by the
\* catch block and thrown again; else the cards become the dataset
loadDataFromDatabase(client, stored) ==
    {LET c == DatabaseHelpers_getCards(client, stored, cardsNet)
         t == DatabaseHelpers_getSets(client, setsNet)
     IN  IF c.result.error # Null
         THEN [thrown |-> TRUE, cards |-> Null, logged |-> TRUE, failed |-> c.failed,
               sent |-> c.sent]
         ELSE IF t.result.error # Null
         THEN [thrown |-> TRUE, cards |-> Null, logged |-> TRUE,
               failed |-> c.failed \/ t.failed, sent |-> c.sent \o t.sent]
         ELSE [thrown |-> FALSE, cards |-> c.result.data, logged |-> FALSE,
               failed |-> FALSE, sent |-> c.sent \o t.sent] :
     cardsNet \in Outcomes, setsNet \in Outcomes}

\* a body of api.pokemontcg.io: null, or an object with the list `data`
TcgBodies == {JsonNull, [k |-> "object", data |-> << >>],
              [k |-> "object", data |-> <<"base1">>]}
TcgResponses == {Rejected} \cup {Served(b) : b \in TcgBodies}

\* PokemonTCGAPI.getSets() and PokemonTCGAPI.getCardsBySet(setId, page,
\* pageSize): the request is made with or without a key; reading data of a
\* null body throws inside the try block
PokemonTCGAPI_get(request, key, response) ==
    LET r == makeApiRequest(response)
    IN  IF r.thrown
        THEN [value |-> << >>, sent |-> <<request>>, logged |-> TRUE, failed |-> TRUE]
        ELSE IF r.data.k # "object"
        THEN [value |-> << >>, sent |-> <<request>>, logged |-> TRUE, failed |-> FALSE]
        ELSE [value |-> r.data.data, sent |-> <<request>>, logged |-> key.logged,
              failed |-> FALSE]

\* the columns of the tables sets and cards, and the column sets a unique
\* index covers: both tables have the primary key id and no other unique key
SetsColumns ==
    {"id", "name", "series", "total", "release_date", "legal_standard", "symbol_url",
     "logo_url", "created_at", "updated_at"}
SetsUnique == {{"id"}}
CardsColumns ==
    {"id", "name", "set_id", "number", "rarity", "images", "tcgplayer_id",
     "cardmarket_id", "legal_standard", "created_at", "updated_at"}
CardsUnique == {{"id"}}

\* the properties syncPokemonSets and syncCardsFromSet give to a row
SyncedSetColumns ==
    {"pokemon_set_id", "name", "series", "total_cards", "release_date", "logo_url",
     "symbol_url"}
SyncedCardColumns ==
    {"pokemon_id", "name", "set_name", "set_id", "number", "rarity", "card_type",
     "image_url", "image_url_small", "image_url_large", "release_date", "artist",
     "card_text", "hp", "retreat_cost", "weakness_type", "weakness_value",
     "resistance_type", "resistance_value", "attacks", "abilities"}

\* the error the database answers a request with, or null: the columns a
\* request names must be columns of the table, and the conflict target of an
\* upsert a unique index
requestError(tableColumns, unique, columns, onConflict) ==
    IF ~(columns \subseteq tableColumns) THEN <<"column not found">>
    ELSE IF onConflict \notin unique
    THEN <<"no unique constraint matching the ON CONFLICT specification">>
    ELSE Null

\* DataSyncService.syncPokemonSets(): the count returned, or undefined (<< >>);
\* `served` tells that the database was reached and answered the upsert
syncPokemonSets(client) ==
    {LET sets == PokemonTCGAPI_get("GET pokemontcg sets", getApiKey("pokemontcg", client),
                                   response)
         error == requestError(SetsColumns, SetsUnique, SyncedSetColumns,
                               {"pokemon_set_id"})
     IN  IF sets.value = << >>
         THEN [thrown |-> FALSE, returned |-> Null, logged |-> sets.logged,
               failed |-> sets.failed, sent |-> sets.sent, served |-> FALSE]
         ELSE IF client = Null
         THEN [thrown |-> FALSE, returned |-> Null, logged |-> TRUE,
               failed |-> sets.failed, sent |-> sets.sent, served |-> FALSE]
         ELSE IF net # "ok"
         THEN [thrown |-> FALSE, returned |-> Null, logged |-> TRUE, failed |-> TRUE,
               sent |-> sets.sent \o <<"upsert sets">>, served |-> FALSE]
         ELSE IF error # Null
         THEN [thrown |-> FALSE, returned |-> Null, logged |-> TRUE, failed |-> TRUE,
               sent |-> sets.sent \o <<"upsert sets">>, served |-> TRUE]
         ELSE [thrown |-> FALSE, returned |-> N(Len(sets.value)), logged |-> sets.logged,
               failed |-> FALSE, sent |-> sets.sent \o <<"upsert sets">>,
               served |-> TRUE] :
     response \in TcgResponses, net \in Outcomes}

\* DataSyncService.syncCardsFromSet(setId, limit): the set is looked up by
\* pokemon_set_id (found, not found, or the request rejected) before the cards
\* are written; a lookup the database answers with an error finds no set
syncCardsFromSet(client) ==
    {LET cards == PokemonTCGAPI_get("GET pokemontcg cards", getApiKey("pokemontcg", client),
                                    response)
         noSet == requestError(SetsColumns, SetsUnique, {"id", "pokemon_set_id"}, {"id"})
         error == requestError(CardsColumns, CardsUnique, SyncedCardColumns,
                               {"pokemon_id"})
     IN  IF cards.value = << >>
         THEN [thrown |-> FALSE, returned |-> Null, logged |-> cards.logged,
               failed |-> cards.failed, sent |-> cards.sent, served |-> FALSE]
         ELSE IF client = Null
         THEN [thrown |-> FALSE, returned |-> Null, logged |-> TRUE,
               failed |-> cards.failed, sent |-> cards.sent, served |-> FALSE]
         ELSE IF lookup # "ok"
         THEN [thrown |-> FALSE, returned |-> Null, logged |-> TRUE, failed |-> TRUE,
               sent |-> cards.sent \o <<"select sets">>, served |-> FALSE]
         ELSE IF noSet # Null \/ ~found
         THEN [thrown |-> FALSE, returned |-> Null, logged |-> TRUE,
               failed |-> noSet # Null,
               sent |-> cards.sent \o <<"select sets">>, served |-> TRUE]
         ELSE IF net # "ok"
         THEN [thrown |-> FALSE, returned |-> Null, logged |-> TRUE, failed |-> TRUE,
               sent |-> cards.sent \o <<"select sets", "upsert cards">>,
               served |-> FALSE]
         ELSE IF error # Null
         THEN [thrown |-> FALSE, returned |-> Null, logged |-> TRUE, failed |-> TRUE,
               sent |-> cards.sent \o <<"select sets", "upsert cards">>,
               served |-> TRUE]
         ELSE [thrown |-> FALSE, returned |-> N(Len(cards.value)),
               logged |-> cards.logged, failed |-> FALSE,
               sent |-> cards.sent \o <<"select sets", "upsert cards">>,
               served |-> TRUE] :
     response \in TcgResponses, lookup \in Outcomes, found \in BOOLEAN,
     net \in Outcomes}


\* the cards the dataset is built from once the table cards holds some
StoredCards == {<< >>, DbCards}

\* syncInitialData(): the sets, then the cards of three sets, then the load,
\* whose exception is logged and thrown again
syncInitialData(client) ==
    {[thrown |-> load.thrown, cards |-> load.cards,
      logged |-> sets.logged \/ cards.logged \/ load.logged,
      failed |-> sets.failed \/ cards.failed \/ load.failed,
      sent |-> sets.sent \o cards.sent \o cards.sent \o cards.sent \o load.sent] :
     sets \in syncPokemonSets(client), cards \in syncCardsFromSet(client),
     load \in UNION {loadDataFromDatabase(client, stored) : stored \in StoredCards}}

\* a variant of loadInitialData whose catch block only logs
loadInitialData_NoFallback(client) ==
    UNION {LET c == DatabaseHelpers_getCards(client, existing, first)
               next == IF existing # << >> THEN loadDataFromDatabase(client, existing)
                       ELSE syncInitialData(client)
           IN  IF c.result.error # Null
               THEN {[thrown |-> FALSE, cards |-> Null, logged |-> TRUE,
                      failed |-> c.failed, sent |-> c.sent]}
               ELSE {[thrown |-> FALSE,
                      cards |-> IF n.thrown THEN Null ELSE n.cards,
                      logged |-> n.logged, failed |-> n.failed,
                      sent |-> c.sent \o n.sent] : n \in next} :
           first \in Outcomes, existing \in StoredCards}

\* loadInitialData(): any error ends in the catch block, which logs it and
\* calls loadMockData(); cards is the list of the dataset the run has
\* assigned to AppState.mockData, or null (<< >>) if it has assigned none
loadInitialData(client) ==
    UNION {LET c == DatabaseHelpers_getCards(client, existing, first)
               next == IF existing # << >> THEN loadDataFromDatabase(client, existing)
                       ELSE syncInitialData(client)
           IN  IF c.result.error # Null
               THEN {[thrown |-> FALSE, cards |-> <<MockCards>>, logged |-> TRUE,
                      failed |-> c.failed, sent |-> c.sent]}
               ELSE {[thrown |-> FALSE,
                      cards |-> IF n.thrown THEN <<MockCards>> ELSE n.cards,
                      logged |-> n.logged, failed |-> n.failed,
                      sent |-> c.sent \o n.sent] : n \in next} :
           first \in Outcomes, existing \in StoredCards}

\* what a call of the main script or of the sync service leaves behind
Ran(run, result) ==
    /\ shown' = << >>
    /\ sent' = run.sent
    /\ returned' = result
    /\ logged' = run.logged
    /\ escaped' = run.thrown
    /\ failed' = run.failed

\* initializeApp(), called once, when the document is loaded: with a
\* connection the data is loaded, without one loadMockData() is called; the
\* catch block logs what loadInitialData() throws and calls loadMockData()
initializeApp(lib, url, anonKey) ==
    /\ mockData = << >>
    /\ ~isInitialized
    /\ \E init \in App_initializeSupabase(supabase, lib, url, anonKey) :
         \E load \in IF init.connected THEN loadInitialData(init.supabase)
                     ELSE {[thrown |-> FALSE, cards |-> <<MockCards>>, logged |-> FALSE,
                            failed |-> FALSE, sent |-> << >>]} :
            /\ supabase' = init.supabase
            /\ LET dataset == IF load.thrown THEN <<MockCards>> ELSE load.cards
               IN  IF dataset = Null THEN UNCHANGED <<mockData, heap>>
                   ELSE /\ mockData' = <<[cards |-> "cards"]>>
                        /\ heap' = ("cards" :> dataset[1]) @@ heap
            /\ isInitialized' = ~load.thrown
            /\ Ran([thrown |-> FALSE,
                    logged |-> init.logged \/ load.logged \/ load.thrown,
                    failed |-> init.failed \/ load.failed,
                    sent |-> init.sent \o load.sent], Null)
            /\ UNCHANGED <<portfolioVars, gradingVars, dom, searchResults, searched,
                           portfolio, watchlist, currentUser, user_portfolios,
                           user_watchlists, pricing_data, upstream, isLoaded,
                           sessionVars>>

\* a call of DataSyncService.syncPokemonSets()
invokeSyncPokemonSets ==
    \E run \in syncPokemonSets(supabase) :
        /\ Ran(run, run.returned)
        /\ UNCHANGED <<portfolioVars, gradingVars, searchVars, appVars, storeVars>>

\* a call of DataSyncService.syncCardsFromSet(setId, limit)
invokeSyncCardsFromSet ==
    \E run \in syncCardsFromSet(supabase) :
        /\ Ran(run, run.returned)
        /\ UNCHANGED <<portfolioVars, gradingVars, searchVars, appVars, storeVars>>

(***************************************************************************)
(* Specifications                                                          *)
(***************************************************************************)
PortfolioIdle ==
    /\ portfolioItems = << >>
    /\ tableBody = NotRendered
    /\ csvContent = NotRendered
    /\ notification = ""

GradingIdle ==
    /\ cardValue = Null
    /\ prevCardValue = Null
    /\ psaCost = Null
    /\ prevPsaCost = Null

SearchIdle ==
    /\ dom = DefaultDom
    /\ mockData = << >>
    /\ heap = ("results" :> << >>)
    /\ searchResults = "results"
    /\ searched = FALSE

AppIdle ==
    /\ portfolio = << >>
    /\ watchlist = << >>
    /\ isInitialized = FALSE

\* the portfolio page before the document is loaded: the scripts have run,
\* portfolio.js has exported its binding, which is still undefined
SessionIdle ==
    /\ isLoaded = FALSE
    /\ AppState_currentUser = Null
    /\ portfolioManager = Null
    /\ window_portfolioManager = portfolioManager
    /\ inflight = << >>

StoreIdle ==
    /\ SessionIdle
    /\ sessionUser = Null
    /\ supabase = Null
    /\ currentUser = Null
    /\ user_portfolios = << >>
    /\ user_watchlists = << >>
    /\ pricing_data = << >>
    /\ upstream = << >>

CallIdle ==
    /\ shown = << >>
    /\ sent = << >>
    /\ returned = Null
    /\ logged = FALSE
    /\ escaped = FALSE
    /\ failed = FALSE

BackIdle == AppIdle /\ StoreIdle /\ CallIdle

\* the portfolio as loadPortfolio left it: one entry of any shape, or up to
\* MaxItems entries of the pool
InitPortfolio ==
    /\ portfolioItems \in {<<i>> : i \in ResolverItems} \cup SeqsUpTo(PortfolioPool, MaxItems)
    /\ tableBody = NotRendered
    /\ csvContent = NotRendered
    /\ notification = ""
    /\ GradingIdle
    /\ SearchIdle
    /\ BackIdle

NextPortfolio == renderPortfolioTable \/ exportPortfolio

SpecPortfolio == InitPortfolio /\ [][NextPortfolio]_vars

InitGrading == PortfolioIdle /\ GradingIdle /\ SearchIdle /\ BackIdle

NextGrading == createCardDetailHTML

SpecGrading == InitGrading /\ [][NextGrading]_vars

\* the application state after initializeApp: a card list is loaded (or
\* mockData is still null), AppState.searchResults is the empty array
InitSearch ==
    /\ PortfolioIdle
    /\ GradingIdle
    /\ BackIdle
    /\ dom = DefaultDom
    /\ \/ /\ mockData = << >>
          /\ heap = ("results" :> << >>)
       \/ /\ mockData = <<[cards |-> "cards"]>>
          /\ \E l \in CardLists : heap = ("cards" :> l) @@ ("results" :> << >>)
    /\ searchResults = "results"
    /\ searched = FALSE

NextSearch == performSearch

SpecSearch == InitSearch /\ [][NextSearch]_vars

\* the main script after initializeApp fell back to loadMockData: nothing held
InitApp ==
    /\ PortfolioIdle
    /\ GradingIdle
    /\ dom = DefaultDom
    /\ mockData = <<[cards |-> "cards"]>>
    /\ heap = ("cards" :> MockCards) @@ ("results" :> << >>)
    /\ searchResults = "results"
    /\ searched = FALSE
    /\ BackIdle

NextApp ==
    \E cardId \in CardIds :
        \/ addToPortfolio(cardId)
        \/ addToWatchlist(cardId)
        \/ removeFromPortfolio(cardId)

SpecApp == InitApp /\ [][NextApp]_vars

RowIds == {RowIdPool[k] : k \in 1..Len(RowIdPool)}

\* the portfolio page after its scripts ran, with or without a client: nobody
\* signed in yet, empty tables
InitStore ==
    /\ PortfolioIdle
    /\ GradingIdle
    /\ SearchIdle
    /\ AppIdle
    /\ CallIdle
    /\ supabase \in {Null, Client}
    /\ currentUser = Null
    /\ user_portfolios = << >>
    /\ user_watchlists = << >>
    /\ pricing_data = << >>
    /\ SessionIdle
    /\ sessionUser \in {Null} \cup {N(u) : u \in Users}
    /\ upstream = << >>

NextStore ==
    \/ initializePortfolio(sessionUser)
    \/ refreshPortfolio
    \/ \E selectedCard \in {Null} \cup {N(c) : c \in StoreCards},
          purchasePrice \in FormPrices, quantity \in FormQuantities :
          handleAddCard(selectedCard, purchasePrice, quantity)
    \/ \E itemId \in RowIds, purchasePrice \in FormPrices, quantity \in FormQuantities :
          handleEditPortfolio(itemId, purchasePrice, quantity)
    \/ \E id \in RowIds : deletePortfolioItem(id)

SpecStore == InitStore /\ [][NextStore]_vars

\* the configuration script loaded: no client yet; a session may exist
InitClient ==
    /\ PortfolioIdle
    /\ GradingIdle
    /\ SearchIdle
    /\ AppIdle
    /\ CallIdle
    /\ supabase = Null
    /\ currentUser \in {Null} \cup {N(u) : u \in Users}
    /\ user_portfolios = << >>
    /\ user_watchlists = << >>
    /\ pricing_data = << >>
    /\ SessionIdle
    /\ sessionUser = Null
    /\ upstream = << >>

NextClient ==
    \/ \E lib \in BOOLEAN, url \in Urls, anonKey \in AnonKeys :
          invokeInitializeSupabase(lib, url, anonKey)
    \/ \E name \in HelperNames \ {"getUserPortfolio", "addToPortfolio",
                                  "removeFromPortfolio", "addToWatchlist"} :
          invokeHelper(name)
    \/ \E userId \in Users : invokeGetUserPortfolio(userId)
    \/ \E cardId \in StoreCards, purchasePrice \in FormPrices :
          invokeAddToPortfolio(cardId, purchasePrice)
    \/ \E userId \in Users, cardId \in StoreCards :
          invokeRemoveFromPortfolio(userId, cardId)
    \/ \E userId \in Users, cardId \in StoreCards :
          invokeAddToWatchlist(userId, cardId)

SpecClient == InitClient /\ [][NextClient]_vars

\* both pages on a database with two cards: the main script has loaded them,
\* the portfolio page has a client and a signed-in user, nothing is held
InitCollections ==
    /\ PortfolioIdle
    /\ GradingIdle
    /\ dom = DefaultDom
    /\ mockData = <<[cards |-> "cards"]>>
    /\ heap = ("cards" :> DbCards) @@ ("results" :> << >>)
    /\ searchResults = "results"
    /\ searched = FALSE
    /\ AppIdle
    /\ CallIdle
    /\ supabase = Client
    /\ \E u \in Users : currentUser = N(u)
    /\ user_portfolios = << >>
    /\ user_watchlists = << >>
    /\ pricing_data = << >>
    /\ SessionIdle
    /\ sessionUser = currentUser
    /\ upstream = << >>

NextCollections ==
    \/ \E cardId \in StoreCards \cup {"unknown"} :
          \/ addToPortfolio(cardId)
          \/ addToWatchlist(cardId)
          \/ removeFromPortfolio(cardId)
    \/ \E userId \in Users, cardId \in StoreCards :
          \/ invokeAddToPortfolio(cardId, N(10))
          \/ invokeAddToWatchlist(userId, cardId)

SpecCollections == InitCollections /\ [][NextCollections]_vars

\* the page with a client or without, before a pricing sync: each service
\* answers in one of its ways
InitPricing ==
    /\ PortfolioIdle
    /\ GradingIdle
    /\ SearchIdle
    /\ AppIdle
    /\ CallIdle
    /\ supabase \in {Null, Client}
    /\ currentUser = Null
    /\ user_portfolios = << >>
    /\ user_watchlists = << >>
    /\ pricing_data = << >>
    /\ SessionIdle
    /\ sessionUser = Null
    /\ \E pc \in PcResponses, ppt \in PptResponses :
          upstream = [pricecharting |-> pc, pokemonpricetracker |-> ppt]

NextPricing ==
    \/ syncCardPricing(PricedCard, CardName)
    \/ invokeGetCardPricing(CardName)

SpecPricing == InitPricing /\ [][NextPricing]_vars

\* the database with a client on the page and an empty pricing table; the
\* price services of the client sync answer in one of their ways
InitServer ==
    /\ PortfolioIdle
    /\ GradingIdle
    /\ SearchIdle
    /\ AppIdle
    /\ CallIdle
    /\ supabase = Client
    /\ currentUser = Null
    /\ user_portfolios = << >>
    /\ user_watchlists = << >>
    /\ pricing_data = << >>
    /\ SessionIdle
    /\ sessionUser = Null
    /\ \E ppt \in {Rejected, Served([k |-> "object", current_price |-> N(7),
                                      market_price |-> Null,
                                      trending_score |-> Null])} :
          upstream = [pricecharting |-> Rejected, pokemonpricetracker |-> ppt]

\* the writers of pricing_data: the populate-pricing function (a preflight
\* request, a request without the key, one whose card query fails, one that
\* reaches the loop) and the client sync
NextServer ==
    \/ populatePricing("OPTIONS", TRUE, << >>, << >>, "ok", "ok")
    \/ populatePricing("POST", FALSE, << >>, << >>, "ok", "ok")
    \/ \E cardsNet \in Outcomes \ {"ok"} :
          populatePricing("POST", TRUE, << >>, << >>, cardsNet, "ok")
    \/ \E cards \in ServerCards, net \in Outcomes :
          \E answers \in [1..Len(cards) -> ProductAnswers] :
              populatePricing("POST", TRUE, cards, answers, "ok", net)
    \/ syncCardPricing(PricedCard, CardName)

SpecServer == InitServer /\ [][NextServer]_vars

\* the page before the document is loaded, with a client, the user signed
\* in or not, and a portfolio of the user in the table or none
InitSession ==
    /\ PortfolioIdle
    /\ GradingIdle
    /\ SearchIdle
    /\ AppIdle
    /\ CallIdle
    /\ SessionIdle
    /\ supabase = Client
    /\ currentUser = Null
    /\ sessionUser \in {Null} \cup {N(u) : u \in Users}
    /\ user_portfolios \in
          {<< >>} \cup {insertUserPortfolio(<< >>, N(u),
                            [user_id |-> N(u), card_id |-> N(c),
                             purchase_price |-> purchasePrice,
                             grading_status |-> "ungraded"]).rows :
                        u \in Users, c \in StoreCards,
                        purchasePrice \in FormPrices \ {Null}}
    /\ user_watchlists = << >>
    /\ pricing_data = << >>
    /\ upstream = << >>

NextSession ==
    \/ DOMContentLoaded
    \/ \E user \in Users : SIGNED_IN(user)
    \/ SIGNED_OUT
    \/ showAddCardModal

SpecSession == InitSession /\ [][NextSession]_vars

\* the portfolio page of a signed-in user after its first load, the table
\* empty
InitAsync ==
    /\ PortfolioIdle
    /\ GradingIdle
    /\ SearchIdle
    /\ AppIdle
    /\ CallIdle
    /\ isLoaded = TRUE
    /\ portfolioManager = N("PortfolioManager")
    /\ window_portfolioManager = Null
    /\ inflight = << >>
    /\ supabase = Client
    /\ \E u \in Users : currentUser = N(u)
    /\ sessionUser = currentUser
    /\ AppState_currentUser = Null
    /\ user_portfolios = << >>
    /\ user_watchlists = << >>
    /\ pricing_data = << >>
    /\ upstream = << >>

\* the operations of the page, each up to the await of its load, and the
\* arrival of a response
NextAsync ==
    \/ refreshPortfolio_awaits
    \/ \E selectedCard \in {N(c) : c \in StoreCards} :
          handleAddCard_awaits(selectedCard, N(10))
    \/ \E id \in RowIds : deletePortfolioItem_awaits(id)
    \/ \E n \in 1..MaxInflight : loadPortfolio_resumes(n)

SpecAsync == InitAsync /\ [][NextAsync]_vars

\* the page when its scripts have run and the document is not yet loaded: no
\* client, no dataset, nobody signed in; the price services fail or answer
\* without a price
InitFailures ==
    /\ PortfolioIdle
    /\ GradingIdle
    /\ SearchIdle
    /\ AppIdle
    /\ CallIdle
    /\ supabase = Null
    /\ currentUser = Null
    /\ user_portfolios = << >>
    /\ user_watchlists = << >>
    /\ pricing_data = << >>
    /\ SessionIdle
    /\ sessionUser \in {Null} \cup {N(u) : u \in Users}
    /\ \E pc \in {Rejected, Served(Array(<< >>))}, ppt \in {Rejected, Served(JsonNull)} :
          upstream = [pricecharting |-> pc, pokemonpricetracker |-> ppt]

\* start-up, the portfolio page, the sync service and the price wrappers
NextFailures ==
    \/ \E lib \in BOOLEAN, url \in Urls, anonKey \in AnonKeys :
          initializeApp(lib, url, anonKey)
    \/ initializePortfolio(sessionUser)
    \/ refreshPortfolio
    \/ \E selectedCard \in {Null} \cup {N(c) : c \in StoreCards} :
          handleAddCard(selectedCard, N(10), N(3))
    \/ \E itemId \in RowIds : handleEditPortfolio(itemId, N(10), N(3))
    \/ \E id \in RowIds : deletePortfolioItem(id)
    \/ invokeSyncPokemonSets
    \/ invokeSyncCardsFromSet
    \/ syncCardPricing(PricedCard, CardName)
    \/ invokeGetCardPricing(CardName)

SpecFailures == InitFailures /\ [][NextFailures]_vars

(***************************************************************************)
(* Properties of the portfolio valuation                                   *)
(***************************************************************************)
\* the rows on screen and in the export, each with the entry it was made from
RenderedRows ==
    {<<portfolioItems[i], tableBody.rows[i]>> : i \in 1..Len(tableBody.rows)}
        \cup {<<portfolioItems[i], csvContent.rows[i]>> : i \in 1..Len(csvContent.rows)}

Zero == [k |-> "num", n |-> 0, d |-> 1]

\* C1: for every entry, the ROI of the table row and of the CSV row is
\* (currentPrice - purchasePrice) / purchasePrice * 100 when purchasePrice > 0
\* and exactly 0 otherwise; it is never a non-finite value
C1_RoiGuarded ==
    \A p \in RenderedRows :
        LET item == p[1]
            row == p[2]
        IN  /\ row.roi.k = "num"
            /\ IF item.purchase_price > 0
               THEN row.roi.n * item.purchase_price
                        = (row.currentPrice - item.purchase_price) * 100 * row.roi.d
               ELSE row.roi = Zero

FallbackOrder(status) ==
    CASE status = "psa-10" -> <<"psa_10_price", "ungraded_price">>
      [] status = "psa-9" -> <<"psa_9_price", "psa_10_price", "ungraded_price">>
      [] status = "psa-8" -> <<"psa_8_price", "psa_9_price", "ungraded_price">>
      [] status = "psa-7" -> <<"psa_7_price", "psa_8_price", "ungraded_price">>
      [] OTHER -> <<"ungraded_price">>

PresentTiers(item) ==
    LET order == FallbackOrder(item.grading_status)
    IN  {i \in 1..Len(order) : Truthy(item.pricing[1][order[i]])}

\* C2: for an entry with a price record, the resolved price is the first
\* present (defined, non-zero) tier of the status's fallback order; when the
\* requested grade's price is present it is exactly that price
C2_FirstPresentTier ==
    \A p \in RenderedRows :
        LET item == p[1]
            row == p[2]
            order == FallbackOrder(item.grading_status)
        IN  (item.pricing # << >> /\ PresentTiers(item) # {}) =>
                /\ row.currentPrice = item.pricing[1][order[Min(PresentTiers(item))]][1]
                /\ Truthy(item.pricing[1][order[1]]) =>
                        row.currentPrice = item.pricing[1][order[1]][1]

\* a psa-8 entry whose psa_8_price is absent is shown at its psa_9_price, and a
\* psa-9 entry whose psa_9_price is absent at its psa_10_price
C2_Witness ==
    /\ tableBody.state = "rows"
    /\ \E p \in RenderedRows :
        /\ p[1].grading_status = "psa-8"
        /\ p[1].pricing # << >>
        /\ ~Truthy(p[1].pricing[1].psa_8_price)
        /\ Truthy(p[1].pricing[1].psa_9_price)
        /\ Truthy(p[1].pricing[1].ungraded_price)
        /\ p[2].currentPrice = p[1].pricing[1].psa_9_price[1]

OnlyUngraded(item) ==
    /\ item.pricing # << >>
    /\ Truthy(item.pricing[1].ungraded_price)
    /\ \A t \in {"psa_7_price", "psa_8_price", "psa_9_price", "psa_10_price"} :
            ~Truthy(item.pricing[1][t])

\* C3 as stated: when every tier of the fallback order is absent, or the entry
\* has no price record at all, the resolved price is 0; when only the ungraded
\* tier is present it is the ungraded price; it is never negative
C3_AbsentIsZero ==
    \A p \in RenderedRows :
        LET item == p[1]
            row == p[2]
        IN  /\ (item.pricing = << >> \/ PresentTiers(item) = {}) => row.currentPrice = 0
            /\ OnlyUngraded(item) => row.currentPrice = item.pricing[1].ungraded_price[1]
            /\ row.currentPrice >= 0

\* C3 amended: with a price record whose fallback tiers are all absent the
\* resolved price is 0; with no price record at all it is the entry's
\* purchase price; when only the ungraded tier is present it is the ungraded
\* price; it is never negative
C3_AbsentIsZeroOrPurchasePrice ==
    \A p \in RenderedRows :
        LET item == p[1]
            row == p[2]
        IN  /\ (item.pricing # << >> /\ PresentTiers(item) = {}) => row.currentPrice = 0
            /\ item.pricing = << >> => row.currentPrice = item.purchase_price
            /\ OnlyUngraded(item) => row.currentPrice = item.pricing[1].ungraded_price[1]
            /\ row.currentPrice >= 0

\* a psa-9 entry bought at a positive price, with a price record that holds
\* none of psa_9, psa_10, ungraded, is shown at 0
C3_Witness ==
    /\ tableBody.state = "rows"
    /\ \E p \in RenderedRows :
        /\ p[1].grading_status = "psa-9"
        /\ p[1].purchase_price > 0
        /\ p[1].pricing # << >>
        /\ PresentTiers(p[1]) = {}
        /\ Truthy(p[1].pricing[1].psa_8_price)
        /\ p[2].currentPrice = 0

PsaBounds == <<199, 499, 999, 2499, 4999, 9999>>
PsaFees == <<19, 30, 50, 75, 150, 300, 600>>

\* the fee of the first tier whose strict upper bound exceeds v cents
PsaStep(v) ==
    PsaFees[1 + Cardinality({i \in 1..Len(PsaBounds) : v >= PsaBounds[i] * 100})]

\* C5: the psa fee is the step function with strict upper bounds 199, 499,
\* 999, 2499, 4999, 9999 (fees 19, 30, 50, 75, 150, 300, else 600); a value on
\* a bound takes the next tier's fee (198.99 -> 19, 199 -> 30, 10000 -> 600);
\* the fee is non-decreasing in the value
C5_PsaStepFunction ==
    /\ cardValue # Null =>
        /\ psaCost = N(PsaStep(cardValue[1]))
        /\ cardValue = N(19899) => psaCost = N(19)
        /\ cardValue = N(19900) => psaCost = N(30)
        /\ cardValue = N(1000000) => psaCost = N(600)
    /\ (prevCardValue # Null /\ prevCardValue[1] <= cardValue[1]) =>
            prevPsaCost[1] <= psaCost[1]

\* 198.99 was priced at 19 and then 199.00 at 30
C5_Witness ==
    /\ prevCardValue = N(19899)
    /\ prevPsaCost = N(19)
    /\ cardValue = N(19900)
    /\ psaCost = N(30)

(***************************************************************************)
(* Properties of the search pipeline                                       *)
(***************************************************************************)
Range(q) == {q[i] : i \in 1..Len(q)}

\* AppState.mockData.cards, and no cards while mockData is null
Loaded == IF mockData = << >> THEN << >> ELSE heap[mockData[1].cards]

\* the array AppState.searchResults refers to
Results == heap[searchResults]

\* where a card stands in the loaded list
Position(card) == CHOOSE i \in 1..Len(Loaded) : Loaded[i] = card

ContainsIgnoringCase(field, term) == includes(toLowerCase(field), toLowerCase(term))

\* the predicates of a query, on the term as typed and the filters as given to
\* searchCards
C6_Satisfies(card, term, filters) ==
    /\ \/ term = << >>
       \/ ContainsIgnoringCase(card.name, term)
       \/ ContainsIgnoringCase(card.set, term)
       \/ ContainsIgnoringCase(card.number, term)
    /\ filters.set # "" => card.setId = filters.set
    /\ filters.type # "" => card.type = filters.type
    /\ filters.rarity # "" => card.rarity = filters.rarity
    /\ filters.priceMin <= card.ungradedPrice
    /\ ~filters.priceMax.inf => card.ungradedPrice <= filters.priceMax.v
    /\ filters.roiMin <= card.roi
    /\ ~filters.roiMax.inf => card.roi <= filters.roiMax.v

\* C6: a card is in the result of a search if and only if it is in the loaded
\* list and satisfies all of the text, set, type, rarity, price-range and
\* ROI-range predicates; no card is returned twice
C6_ResultIsConjunction ==
    searched =>
        /\ \A card \in CardPool :
              card \in Range(Results) <=>
                  /\ card \in Range(Loaded)
                  /\ C6_Satisfies(card, dom.cardSearch, getActiveFilters(dom))
        /\ Len(Results) = Cardinality(Range(Results))

\* a search for "Ab" within set s1 returned one of two loaded cards
C6_Witness ==
    /\ searched
    /\ dom.cardSearch = Str2("A", "b")
    /\ dom.setFilter = "s1"
    /\ Len(Loaded) = 2
    /\ Len(Results) = 1
    /\ Results[1].id = "c1"

\* C7: every returned card lies within the bounds as the user entered them,
\* inclusive, for price and for ROI; an empty minimum is 0, an empty maximum
\* is +infinity, and an entered 0 is the bound 0
C7_EnteredBoundsApplied ==
    searched =>
        \A card \in Range(Results) :
            /\ ToNumber(dom.priceMin) <= card.ungradedPrice
            /\ dom.priceMax # Null => card.ungradedPrice <= dom.priceMax[1]
            /\ ToNumber(dom.roiMin) <= card.roi
            /\ dom.roiMax # Null => card.roi <= dom.roiMax[1]

\* whether a comes strictly before b under the selected key
C8_Precedes(a, b, sortBy) ==
    CASE sortBy = "price-desc" -> a.ungradedPrice > b.ungradedPrice
      [] sortBy = "price-asc" -> a.ungradedPrice < b.ungradedPrice
      [] sortBy = "roi-desc" -> a.roi > b.roi
      [] sortBy = "roi-asc" -> a.roi < b.roi
      [] sortBy = "name" -> localeCompare(a.name, b.name) < 0
      [] sortBy = "trending" -> a.trending > b.trending
      [] OTHER -> FALSE

\* C8: the output is ordered by the selected key (names in localeCompare
\* order); cards that compare equal keep their relative input order; under an
\* unrecognized key the output order is the input order
C8_SortedAndStable ==
    searched =>
        \A i, j \in 1..Len(Results) :
            i < j =>
                /\ ~C8_Precedes(Results[j], Results[i], dom.sortBy)
                /\ ~C8_Precedes(Results[i], Results[j], dom.sortBy) =>
                        Position(Results[i]) < Position(Results[j])

\* a name sort moved the second loaded card in front of the first
C8_Witness ==
    /\ searched
    /\ dom.sortBy = "name"
    /\ Len(Loaded) = 2
    /\ Len(Results) = 2
    /\ Results[1] = Loaded[2]
    /\ Results[2] = Loaded[1]

\* C9: a search leaves AppState.mockData and the loaded card list as they
\* were, element for element, and returns an array that is not the loaded list
C9_SearchIsPure ==
    [][/\ mockData' = mockData
       /\ mockData # << >> =>
            /\ heap'[mockData[1].cards] = heap[mockData[1].cards]
            /\ searchResults' # mockData[1].cards]_vars

\* the results are in another order than the loaded list, which is unchanged
C9_Witness ==
    /\ searched
    /\ dom.sortBy = "price-desc"
    /\ Len(Loaded) = 2
    /\ Loaded[1].ungradedPrice < Loaded[2].ungradedPrice
    /\ Results = <<Loaded[2], Loaded[1]>>

\* the query of the last search applied to the card list `cards`
C10_Query(cards) ==
    LET out == searchCards(("cards" :> cards), <<[cards |-> "cards"]>>, NewRef,
                           toLowerCase(dom.cardSearch), getActiveFilters(dom))
    IN  out.heap[out.ref]

\* C10: the query of a search applied to its own result gives that result
\* again, and a search repeated with the same form gives the same sequence
C10_Idempotent ==
    /\ [](searched => C10_Query(Results) = Results)
    /\ [][(searched /\ dom' = dom) => heap'[searchResults'] = heap[searchResults]]_vars

\* a result of two cards that tie under the sort key
C10_Witness ==
    /\ searched
    /\ dom.sortBy = "price-desc"
    /\ Len(Results) = 2
    /\ Results[1].ungradedPrice = Results[2].ungradedPrice

\* a sequence back to front
Reverse(q) == [i \in 1..Len(q) |-> q[Len(q) + 1 - i]]

\* no two cards of the sequence have the same ungraded price
DistinctPrices(q) ==
    \A i, j \in 1..Len(q) : i # j => q[i].ungradedPrice # q[j].ungradedPrice

\* C11: when the form of a price-asc search is searched again with only the
\* sort key changed to price-desc, and the returned cards have pairwise
\* distinct prices, the new result is exactly the old result reversed
C11_DescReversesAsc ==
    [][(/\ searched
        /\ dom.sortBy = "price-asc"
        /\ dom' = [dom EXCEPT !.sortBy = "price-desc"]
        /\ DistinctPrices(Results))
            => heap'[searchResults'] = Reverse(Results)]_vars

\* a price-desc search returned two cards of different prices that stand in
\* the loaded list in ascending price order
C11_Witness ==
    /\ searched
    /\ dom.sortBy = "price-desc"
    /\ Len(Results) = 2
    /\ Results[1].ungradedPrice > Results[2].ungradedPrice
    /\ Loaded = Reverse(Results)

(***************************************************************************)
(* Properties of the in-memory portfolio                                   *)
(***************************************************************************)
\* whether the stored ROI x is the percentage gain of value over price, to the
\* one decimal place the source writes (0 when the price is not positive)
C12_RoiOf(x, price, value) ==
    IF price > 0
    THEN /\ x.k = "num"
         /\ Abs(x.n * price - (value - price) * 100 * x.d) * 10 < price * x.d
    ELSE x = Rat(0, 1)

\* C12: every entry of AppState.portfolio carries roi = (currentValue -
\* purchasePrice) / purchasePrice * 100 (0 when purchasePrice is not positive)
\* and profit = (currentValue - purchasePrice) * quantity, the quantity of an
\* entry of the in-memory portfolio being 1
C12_RoiProfitDerivable ==
    \A i \in 1..Len(portfolio) :
        LET e == portfolio[i]
        IN  /\ C12_RoiOf(e.roi, e.purchasePrice, e.currentValue)
            /\ e.profit = (e.currentValue - e.purchasePrice) * 1

(***************************************************************************)
(* Properties of the stored portfolio                                      *)
(***************************************************************************)
\* the ids of the entries of a sequence of rows or items
Ids(q) == {q[i].id : i \in 1..Len(q)}

\* the rows other than the one with the given id, in order
RECURSIVE C13_Without(_, _)
C13_Without(rows, id) ==
    IF rows = << >> THEN << >>
    ELSE (IF rows[1].id = id THEN << >> ELSE <<rows[1]>>) \o C13_Without(Tail(rows), id)

\* C13: when the signed-in user deletes the entry of a row of the table (the
\* id is the one confirmDelete gets from that row) and success is reported
\* and the reload is served, exactly that row is gone from user_portfolios,
\* every other row is as it was, and PortfolioState.portfolioItems no longer
\* contains the entry
C13_DeleteRemovesEntry ==
    [][\A id \in RowIds :
        (/\ deletePortfolioItem(id)
         /\ id \in Ids(portfolioItems)
         /\ shown' = <<"Portfolio item deleted successfully!">>)
            => /\ user_portfolios' = C13_Without(user_portfolios, id)
               /\ id \notin Ids(user_portfolios')
               /\ id \notin Ids(portfolioItems')]_vars

\* the row or item with the given id
Entry(q, id) == q[CHOOSE i \in 1..Len(q) : q[i].id = id]

\* C14: when the signed-in user submits the edit form of an entry with a valid
\* price and quantity, the row of that entry in user_portfolios gets the
\* submitted purchase price and quantity, every other row stays as it was,
\* and success is reported
C14_EditUpdatesEntry ==
    [][\A itemId \in RowIds :
        (/\ handleEditPortfolio(itemId, N(10), N(3))
         /\ supabase # Null
         /\ currentUser # Null
         /\ itemId \in Ids(user_portfolios))
            => /\ Ids(user_portfolios') = Ids(user_portfolios)
               /\ Entry(user_portfolios', itemId).purchase_price = 10
               /\ Entry(user_portfolios', itemId).quantity = N(3)
               /\ \A other \in Ids(user_portfolios) \ {itemId} :
                     Entry(user_portfolios', other) = Entry(user_portfolios, other)
               /\ shown'[1] = "Portfolio item updated successfully!"]_vars

\* C16: every row of user_portfolios has a purchase price above 0 and a
\* quantity of at least 1, and the row an add-card submission stores carries
\* the quantity that was submitted
C16_StoredEntriesValid ==
    /\ [](\A i \in 1..Len(user_portfolios) :
            /\ user_portfolios[i].purchase_price > 0
            /\ user_portfolios[i].quantity # Null
            /\ user_portfolios[i].quantity[1] >= 1)
    /\ [][\A selectedCard \in {N(c) : c \in StoreCards}, purchasePrice \in FormPrices,
            quantity \in FormQuantities :
            (/\ handleAddCard(selectedCard, purchasePrice, quantity)
             /\ Len(user_portfolios') > Len(user_portfolios))
                => user_portfolios'[Len(user_portfolios')].quantity = quantity]_vars

\* a call that was stopped: a message, no request, the stored portfolio and
\* the loaded items as they were
C17_Blocked ==
    /\ shown' # << >>
    /\ sent' = << >>
    /\ user_portfolios' = user_portfolios
    /\ portfolioItems' = portfolioItems

C19_Refused ==
    /\ returned' = <<NotInitialized>>
    /\ sent' = << >>
    /\ user_portfolios' = user_portfolios
    /\ user_watchlists' = user_watchlists

\* C19: initializeSupabase returns null and creates no client (an
\* uninitialized client stays uninitialized, no request is sent) when the
\* client library is not loaded or the URL or the anon key is empty or its
\* placeholder; every method of DatabaseHelpers called while there is no
\* client returns {data: null, error: 'Client not initialized'} and sends
\* nothing
C19_UninitializedClient ==
    [][/\ \A lib \in BOOLEAN, url \in Urls, anonKey \in AnonKeys :
            (/\ invokeInitializeSupabase(lib, url, anonKey)
             /\ \/ ~lib
                \/ url \in {"", "YOUR_SUPABASE_URL"}
                \/ anonKey \in {"", "YOUR_SUPABASE_ANON_KEY"})
                => /\ returned' = <<Null>>
                   /\ supabase' = supabase
                   /\ sent' = << >>
       /\ supabase = Null =>
            /\ \A name \in HelperNames : invokeHelper(name) => C19_Refused
            /\ \A userId \in Users : invokeGetUserPortfolio(userId) => C19_Refused
            /\ \A cardId \in StoreCards, purchasePrice \in FormPrices :
                  invokeAddToPortfolio(cardId, purchasePrice) => C19_Refused
            /\ \A userId \in Users, cardId \in StoreCards :
                  /\ invokeRemoveFromPortfolio(userId, cardId) => C19_Refused
                  /\ invokeAddToWatchlist(userId, cardId) => C19_Refused]_vars

\* a method of DatabaseHelpers was called while there was no client
C19_Witness ==
    /\ supabase = Null
    /\ returned = <<NotInitialized>>
    /\ sent = << >>
    /\ logged

(***************************************************************************)
(* Uniqueness of the entries of a user                                     *)
(***************************************************************************)
\* no two entries of the sequence agree on the key
C15_NoTwo(q, Key(_)) ==
    \A i, j \in 1..Len(q) : i # j => Key(q[i]) # Key(q[j])

C15_CardId(c) == c.id
C15_UserCard(r) == <<r.user_id, r.card_id>>

\* whether the user holds the card in the table
C15_Holds(rows, userId, cardId) ==
    \E i \in 1..Len(rows) : <<rows[i].user_id>> = userId /\ rows[i].card_id = cardId

\* C15: AppState.portfolio and AppState.watchlist never hold a card id twice,
\* and user_portfolios and user_watchlists never hold two rows of one user
\* and card; adding a card that is already held leaves the collection as it
\* was, in memory and in the tables
C15_OnePerUserAndCard ==
    /\ [](/\ C15_NoTwo(portfolio, C15_CardId)
          /\ C15_NoTwo(watchlist, C15_CardId)
          /\ C15_NoTwo(user_portfolios, C15_UserCard)
          /\ C15_NoTwo(user_watchlists, C15_UserCard))
    /\ [][/\ \A cardId \in StoreCards :
               /\ (addToPortfolio(cardId) /\ findById(portfolio, cardId) # << >>)
                      => portfolio' = portfolio
               /\ (addToWatchlist(cardId) /\ findById(watchlist, cardId) # << >>)
                      => watchlist' = watchlist
          /\ \A cardId \in StoreCards, purchasePrice \in FormPrices :
                (/\ invokeAddToPortfolio(cardId, purchasePrice)
                 /\ C15_Holds(user_portfolios, currentUser, N(cardId)))
                    => user_portfolios' = user_portfolios
          /\ \A userId \in Users, cardId \in StoreCards :
                (/\ invokeAddToWatchlist(userId, cardId)
                 /\ C15_Holds(user_watchlists, N(userId), N(cardId)))
                    => user_watchlists' = user_watchlists]_vars

\* the user holds a card in memory and in the table, and a second add of it
\* to the table was refused
C15_Witness ==
    /\ Len(portfolio) = 1
    /\ Len(user_portfolios) = 1
    /\ portfolio[1].id = user_portfolios[1].card_id[1]
    /\ sent = <<"insert user_portfolios">>
    /\ returned = <<Failed("duplicate key value violates unique constraint")>>


(***************************************************************************)
(* Properties of the pricing sync                                          *)
(***************************************************************************)
\* PriceCharting answers with a product of the card that has a price
C20_PcUsable(r) ==
    /\ r.ok
    /\ r.body.k = "array"
    /\ \E i \in 1..Len(r.body.items) :
          /\ r.body.items[i].k = "object"
          /\ nameMatches(r.body.items[i], CardName)
          /\ parsePrice(r.body.items[i].price) # Null

\* PriceCharting rejects, errors, or answers null, nothing or a malformed list
C20_PcFailed(r) ==
    \/ ~r.ok
    \/ r.body.k # "array"
    \/ \A i \in 1..Len(r.body.items) :
          r.body.items[i].k # "object" \/ r.body.items[i].productName = Null

\* PokemonPriceTracker answers with a price of the card
C20_PptUsable(r) ==
    /\ r.ok
    /\ r.body.k = "object"
    /\ (Truthy(r.body.current_price) \/ Truthy(r.body.market_price))

\* PokemonPriceTracker rejects, errors, or answers null or without a price
C20_PptFailed(r) == ~C20_PptUsable(r)

C20_OneSurvives ==
    /\ upstream # << >>
    /\ \/ C20_PcFailed(upstream.pricecharting)
             /\ C20_PptUsable(upstream.pokemonpricetracker)
       \/ C20_PptFailed(upstream.pokemonpricetracker)
             /\ C20_PcUsable(upstream.pricecharting)

\* C20: when one pricing source fails (rejects, errors, answers empty, null or
\* malformed) while the other answers with a usable price, the aggregate
\* returns a record, not null, and syncCardPricing stores a row for the card.
C20_PartialResultKept ==
    [][C20_OneSurvives =>
          /\ invokeGetCardPricing(CardName) => returned' # Null
          /\ syncCardPricing(PricedCard, CardName) =>
                /\ returned' # Null
                /\ \E i \in 1..Len(pricing_data') :
                      pricing_data'[i].card_id = PricedCard]_vars


PriceFields ==
    {"ungraded_price", "psa_10_price", "psa_9_price", "psa_8_price", "psa_7_price"}

\* the product PriceCharting answered with for the card, if any
C21_Product ==
    LET r == upstream.pricecharting
    IN  IF r.ok /\ r.body.k = "array" /\ r.body.items # << >>
             /\ r.body.items[1].k = "object" /\ nameMatches(r.body.items[1], CardName)
        THEN <<r.body.items[1]>>
        ELSE Null

\* the value PriceCharting, the source processed first, supplied for a field
C21_First(field) ==
    IF C21_Product = Null THEN Null
    ELSE CASE field = "ungraded_price" -> parsePrice(C21_Product[1].price)
           [] field = "psa_10_price" -> parsePrice(C21_Product[1].psa10Price)
           [] field = "psa_9_price" -> parsePrice(C21_Product[1].psa9Price)
           [] field = "psa_8_price" -> parsePrice(C21_Product[1].psa8Price)
           [] field = "psa_7_price" -> parsePrice(C21_Product[1].psa7Price)
           [] field = "data_source" -> N("pricecharting")
           [] OTHER -> Null

\* the value PokemonPriceTracker, processed second, supplied for a field
C21_Second(field) ==
    LET r == upstream.pokemonpricetracker
    IN  IF r.ok /\ r.body.k = "object"
        THEN CASE field = "ungraded_price" ->
                      OrElse(r.body.current_price, r.body.market_price)
               [] field = "trending_score" -> r.body.trending_score
               [] field = "data_source" ->
                      IF Truthy(r.body.current_price) \/ Truthy(r.body.market_price)
                      THEN N("pokemonpricetracker") ELSE Null
               [] OTHER -> Null
        ELSE Null

C21_Merged(field) ==
    CASE field = "ungraded_price" -> returned[1].ungraded_price
      [] field = "psa_10_price" -> returned[1].psa_10_price
      [] field = "psa_9_price" -> returned[1].psa_9_price
      [] field = "psa_8_price" -> returned[1].psa_8_price
      [] field = "psa_7_price" -> returned[1].psa_7_price
      [] field = "trending_score" -> returned[1].trending_score
      [] field = "data_source" -> returned[1].data_source

GradedFields == {"psa_10_price", "psa_9_price", "psa_8_price", "psa_7_price"}

\* the merged record carries roi_percentage
C22_HasRoi == "roi_percentage" \in returned[1].keys

\* (graded - ungraded) / ungraded * 100 as an exact fraction
C22_Roi(ungraded, graded) == Rat((graded - ungraded) * 100, ungraded)

C23_Written ==
    {run \in syncPokemonSets(supabase) : run.served /\ "upsert sets" \in Range(run.sent)}
        \cup {run \in syncCardsFromSet(supabase) :
                  run.served /\ "upsert cards" \in Range(run.sent)}

C24_Key(r) == <<r.card_id, r.source>>

\* C24: whatever the client sync and the populate-pricing function write,
\* pricing_data holds at most one row per card and source: a write leaves
\* every row in its place, changing it only into a row of the same card and
\* source, and adds rows only for pairs the table did not hold.
C24_OnePerCardAndSource ==
    [][/\ C15_NoTwo(pricing_data', C24_Key)
       /\ Len(pricing_data') >= Len(pricing_data)
       /\ \A i \in 1..Len(pricing_data) :
              C24_Key(pricing_data'[i]) = C24_Key(pricing_data[i])]_vars

\* the function wrote the rows of both cards into a table that already held
\* the row of the second one
C24_Witness ==
    /\ returned = ServerResponse(200, 2, 2)
    /\ Len(pricing_data) = 2
    /\ pricing_data[1].card_id = "c2"
    /\ pricing_data[2].card_id = "c1"

\* C25: in a run of the populate-pricing function a pause lies between any
\* two consecutive price requests, whether the first of them succeeded or
\* failed.
C25_DelayBetweenRequests ==
    \A i, j \in 1..Len(sent) :
        (i < j /\ sent[i] = ProductRequest /\ sent[j] = ProductRequest) =>
            \E k \in (i + 1)..(j - 1) : sent[k] = Delay

(***************************************************************************)
(* Properties of the watchlist                                             *)
(***************************************************************************)
\* the alert types the view watchlist_with_pricing can trigger on
AlertDirections == {"above", "below"}

\* C26: every row of user_watchlists that DatabaseHelpers.addToWatchlist has
\* stored, the alert type left at its default included, has an alert type
\* that is one of above / below.
C26_AlertDirection ==
    \A i \in 1..Len(user_watchlists) : user_watchlists[i].alert_type \in AlertDirections

(***************************************************************************)
(* Properties of the start-up                                              *)
(***************************************************************************)
\* C27: when initializeApp() ends, AppState.mockData holds a dataset,
\* whichever way the connection and the loading went, and
\* AppState.isInitialized is true only while it does.
C27_StartupEndsWithDataset ==
    [][/\ \A lib \in BOOLEAN, url \in Urls, anonKey \in AnonKeys :
            initializeApp(lib, url, anonKey) => mockData' # << >>
       /\ isInitialized' => mockData' # << >>]_vars

\* the start-up had a connection, a request of the loading failed and the
\* dataset is the mock data
C27_Witness ==
    /\ isInitialized
    /\ supabase # Null
    /\ failed
    /\ "select cards" \in Range(sent)
    /\ mockData # << >>
    /\ heap[mockData[1].cards] = MockCards

(***************************************************************************)
(* Properties of the session and of the loads in flight                    *)
(***************************************************************************)
\* C28: once every response has arrived, PortfolioState.portfolioItems is
\* what the table holds for the user, whatever the order in which the
\* operations were started and their responses arrived.
C28_NoStaleItems ==
    inflight = << >> =>
        portfolioItems = selectPortfolioWithRoi(user_portfolios, currentUser)

\* C29: PortfolioState.currentUser is non-null only while a user is signed
\* in: while nobody is, it is null (so that the add-card modal and submission
\* show the login prompt) and portfolioItems holds no entry.
C29_UserFollowsSession ==
    sessionUser = Null => (currentUser = Null /\ portfolioItems = << >>)

\* C30: when a user signs in and the portfolio has not been loaded,
\* initializePortfolio() is called: it asks for the user.
C30_SignInInitializes ==
    [][\A user \in Users :
          (SIGNED_IN(user) /\ ~isLoaded) => "auth.getUser" \in Range(sent')]_vars

====
